---- MODULE Spec2Model ----
(***************************************************************************)
(* Model of the paperlint statistics engine: the statistics calculator     *)
(* (extraction, interpretation, study-type detection) and the statistics   *)
(* linter (pattern cache, rule evaluation, lintStatistics), with the       *)
(* academic linter, the reference checks and the issue updaters of the     *)
(* review state.                                                           *)
(*                                                                         *)
(* A text is a sequence of words, a word a sequence of characters.  The    *)
(* regular expressions of a configuration are drawn from a finite table    *)
(* (RegexLang) that gives, for each source string, the words it matches;   *)
(* every source of the table matches whole words only, so the matches of   *)
(* a global scan are the matching words in text order.                     *)
(***************************************************************************)
EXTENDS Integers, Sequences, FiniteSets, TLC

VARIABLES config, patternCache, state, pc, call, result

vars == <<config, patternCache, state, pc, call, result>>

----------------------------------------------------------------------------
(* Bounds of the model *)

\* longest text, in words
MaxLen == 2
\* bits of precision of a floating-point number (53 in an IEEE 754 double)
MantissaBits == 3
\* binary orders of magnitude the effect-size values span
MaxShift == 6
\* the issues the review state holds at most, over all sections
MaxIssues == 2
\* the lines of a references text
MaxLines == 2

----------------------------------------------------------------------------
(* undefined / null, and values that may be absent *)

None == <<>>
Some(x) == <<x>>
IsSome(o) == Len(o) > 0
Val(o) == o[1]

\* outcome of a call that may throw
Throw == [throws |-> TRUE]
Ok(v) == [throws |-> FALSE, value |-> v]

RECURSIVE Concat(_)
Concat(ss) == IF ss = <<>> THEN <<>> ELSE Head(ss) \o Concat(Tail(ss))

Contains(s, x) == \E i \in 1..Len(s) : s[i] = x

\* const v = ...; followed by the code that uses v: the value is bound once
With(v, F(_)) == F(v)

----------------------------------------------------------------------------
(* Characters, words, texts *)

Digits == {"0", "1", "2", "3", "4", "5", "6", "7", "8", "9"}

DigitVal(c) ==
  CASE c = "0" -> 0 [] c = "1" -> 1 [] c = "2" -> 2 [] c = "3" -> 3
    [] c = "4" -> 4 [] c = "5" -> 5 [] c = "6" -> 6 [] c = "7" -> 7
    [] c = "8" -> 8 [] c = "9" -> 9

wN50 == <<"n", "=", "5", "0">>
wN050 == <<"n", "=", "0", "5", "0">>
wN0 == <<"n", "=", "0">>
wN200 == <<"n", "=", "2", "0", "0">>
wNBig == <<"n", "=", "1", "0", "0", "0", "0", "0">>
wSample == <<"sample">>
wTTest == <<"t-test">>
wAnova == <<"anova">>
wRct == <<"rct">>
wRCT == <<"RCT">>
wCohort == <<"cohort">>
wInterview == <<"interview">>
wBlind == <<"blinded">>
wPZero == <<"p", "=", ".", "0", "0", "0">>
wPLess == <<"p", "<", ".", "0", "5">>
wD == <<"d", "=", "-", ".", "5">>
wCI == <<"ci">>
cite1 == <<"[", "1", "]">>
cite01 == <<"[", "0", "1", "]">>
cite2 == <<"[", "2", "]">>
wSee == <<"s", "e", "e">>
wUrl == <<"h", "t", "t", "p", ":", "/", "/", "x">>
wAccessed == <<"a", "c", "c", "e", "s", "s", "e", "d">>
wBonf == <<"bonferroni">>

\* String.prototype.toLowerCase, character by character
LowerChar(c) == IF c = "RCT" THEN "rct" ELSE c
ToLowerCase(text) ==
  [i \in 1..Len(text) |-> [j \in 1..Len(text[i]) |-> LowerChar(text[i][j])]]

RECURSIVE SeqsUpTo(_, _)
SeqsUpTo(S, k) ==
  IF k = 0 THEN {<<>>}
  ELSE LET shorter == SeqsUpTo(S, k - 1)
       IN shorter \cup {Append(s, x) : s \in shorter, x \in S}

----------------------------------------------------------------------------
(* Regular expressions: new RegExp(source, 'gi') *)

BadSource == "("
EmptyTextSource == "^$"

\* the words a source matches (case-insensitively); the source "(" has no
\* language because it does not compile, "^$" matches the empty text only
RegexLang(source) ==
  CASE source = "n=[0-9]+" -> {wN50, wN050, wN0, wN200, wNBig}
    [] source = "n=[1-9][0-9]*" -> {wN50, wN200, wNBig}
    [] source = "sample" -> {wSample}
    [] source = "t-?test" -> {wTTest}
    [] source = "anova" -> {wAnova}
    [] source = "rct" -> {wRct, wRCT}
    [] source = "cohort" -> {wCohort}
    [] source = "interview" -> {wInterview}
    [] source = "blinded" -> {wBlind}
    [] source = "p=[.]0+" -> {wPZero}
    [] source = "p[<=][.][0-9]+" -> {wPZero, wPLess}
    [] source = "d=-?[.][0-9]+" -> {wD}
    [] source = "ci" -> {wCI}
    [] source = "bonferroni" -> {wBonf}
    [] OTHER -> {}

\* new RegExp throws a SyntaxError on a malformed source
CompilePattern(source) ==
  IF source = BadSource THEN Throw
  ELSE Ok([source |-> source, lastIndex |-> 0])

\* compilePatternSafe: null instead of the exception
CompilePatternSafe(source) ==
  LET r == CompilePattern(source)
  IN IF r.throws THEN None ELSE Some(r.value)

\* the number of characters of a text, its words being one character apart
RECURSIVE TextLength(_)
TextLength(text) ==
  IF text = <<>> THEN 0
  ELSE Len(Head(text)) + (IF Tail(text) = <<>> THEN 0 ELSE 1) + TextLength(Tail(text))

\* all matches of a source in a text, in text order (a scan from index 0); the
\* empty source matches the empty string at every position
AllMatches(source, text) ==
  IF source = EmptyTextSource
  THEN IF text = <<>> THEN << <<>> >> ELSE <<>>
  ELSE IF source = "" THEN [i \in 1..(TextLength(text) + 1) |-> <<>>]
  ELSE SelectSeq(text, LAMBDA w : w \in RegexLang(source))

----------------------------------------------------------------------------
(* Numbers in matched text *)

CharAt(w, i) == IF i \in 1..Len(w) THEN w[i] ELSE ""
IsDigitAt(w, i) == CharAt(w, i) \in Digits

\* index of the last character of the digit run that starts at i (i - 1: none)
RECURSIVE DigitRunEnd(_, _)
DigitRunEnd(w, i) == IF IsDigitAt(w, i) THEN DigitRunEnd(w, i + 1) ELSE i - 1

RECURSIVE ParseDigits(_)
ParseDigits(ds) ==
  IF ds = <<>> THEN 0
  ELSE 10 * ParseDigits(SubSeq(ds, 1, Len(ds) - 1)) + DigitVal(ds[Len(ds)])

RECURSIVE Pow10(_)
Pow10(k) == IF k = 0 THEN 1 ELSE 10 * Pow10(k - 1)

\* match[0].match(/\d+/): the first maximal run of digits, or null
FirstDigitRun(w) ==
  LET starts == {i \in 1..Len(w) : IsDigitAt(w, i)}
  IN IF starts = {} THEN None
     ELSE LET i == CHOOSE k \in starts : \A m \in starts : k <= m
          IN Some(SubSeq(w, i, DigitRunEnd(w, i)))

\* parseInt(digits, 10)
ParseInt(ds) == ParseDigits(ds)

\* numbers are rationals n/d with d > 0; 1/0 is Infinity
Rat(n, d) == [n |-> n, d |-> d]
Infinity == Rat(1, 0)
RatLt(a, b) == a.n * b.d < b.n * a.d
RatAbs(a) == IF a.n < 0 THEN Rat(-a.n, a.d) ELSE a
RatMax(a, b) == IF RatLt(a, b) THEN b ELSE a

RECURSIVE Pow2(_)
Pow2(k) == IF k = 0 THEN 1 ELSE 2 * Pow2(k - 1)

\* num / den rounded to the nearest integer, a tie going to the even one
RoundHalfEven(num, den) ==
  LET q == num \div den
      r == num % den
  IN IF 2 * r < den THEN q
     ELSE IF 2 * r > den THEN q + 1
     ELSE IF q % 2 = 0 THEN q ELSE q + 1

\* the floating-point number nearest to (num / den) * (unitN / unitD), num > 0:
\* the quotient is scaled into [2^(MantissaBits-1), 2^MantissaBits) and rounded
RECURSIVE Nearest(_, _, _, _)
Nearest(num, den, unitN, unitD) ==
  IF num < Pow2(MantissaBits - 1) * den THEN Nearest(2 * num, den, unitN, 2 * unitD)
  ELSE IF num >= Pow2(MantissaBits) * den THEN Nearest(num, 2 * den, 2 * unitN, unitD)
  ELSE Rat(RoundHalfEven(num, den) * unitN, unitD)

\* 1 / value as JavaScript computes it: the quotient rounded to nearest
Reciprocal(a) ==
  IF a.n = 0 THEN Infinity
  ELSE IF a.n > 0 THEN Nearest(a.d, a.n, 1, 1)
  ELSE Rat(-Nearest(a.d, -a.n, 1, 1).n, Nearest(a.d, -a.n, 1, 1).d)

\* /-?0?\.\d+|\d+\.?\d*/ tried at index i: the index of the last character
\* matched, or 0 when neither alternative matches at i
NumberEndAt(w, i) ==
  LET s == IF CharAt(w, i) = "-" THEN i + 1 ELSE i
      alt1 == IF CharAt(w, s) = "0" /\ CharAt(w, s + 1) = "." /\ IsDigitAt(w, s + 2)
              THEN DigitRunEnd(w, s + 2)
              ELSE IF CharAt(w, s) = "." /\ IsDigitAt(w, s + 1)
                   THEN DigitRunEnd(w, s + 1)
                   ELSE 0
      e == DigitRunEnd(w, i)
      alt2 == IF ~IsDigitAt(w, i) THEN 0
              ELSE IF CharAt(w, e + 1) = "." THEN DigitRunEnd(w, e + 2) ELSE e
  IN IF alt1 # 0 THEN alt1 ELSE alt2

\* match[0].match(/-?0?\.\d+|\d+\.?\d*/): the leftmost match, or null
FirstNumber(w) ==
  LET starts == {i \in 1..Len(w) : NumberEndAt(w, i) # 0}
  IN IF starts = {} THEN None
     ELSE LET i == CHOOSE k \in starts : \A m \in starts : k <= m
          IN Some(SubSeq(w, i, NumberEndAt(w, i)))

\* parseFloat of a string matched by the number pattern
ParseFloat(s) ==
  LET neg == CharAt(s, 1) = "-"
      body == IF neg THEN Tail(s) ELSE s
      ie == DigitRunEnd(body, 1)
      intPart == SubSeq(body, 1, ie)
      frac == IF CharAt(body, ie + 1) = "." THEN SubSeq(body, ie + 2, Len(body)) ELSE <<>>
      mag == ParseDigits(intPart) * Pow10(Len(frac)) + ParseDigits(frac)
  IN Rat(IF neg THEN -mag ELSE mag, Pow10(Len(frac)))

----------------------------------------------------------------------------
(* Statistics calculator: sample sizes *)

SampleSizeUpper == 100000

\* the entries one sample-size pattern contributes (lines 83-100)
PatternSampleSizes(entry, text) ==
  IF ~IsSome(CompilePatternSafe(entry.source)) THEN <<>>
  ELSE LET ms == AllMatches(entry.source, text)
           one(m) == LET num == FirstDigitRun(m)
                     IN IF ~IsSome(num) THEN <<>>
                        ELSE LET value == ParseInt(Val(num))
                             IN IF value > 0 /\ value < SampleSizeUpper
                                THEN <<[value |-> value, context |-> m,
                                        pattern |-> entry.name]>>
                                ELSE <<>>
       IN Concat([i \in 1..Len(ms) |-> one(ms[i])])

RECURSIVE DedupFromMut(_, _)
DedupFromMut(rs, seen) ==
  IF rs = <<>> THEN <<>>
  ELSE IF Head(rs).context \in seen THEN DedupFromMut(Tail(rs), seen)
       ELSE <<Head(rs)>> \o DedupFromMut(Tail(rs), seen \cup {Head(rs).context})

\* results.filter with the seen set: the first entry of each value is kept
RECURSIVE DedupFrom(_, _)
DedupFrom(rs, seen) ==
  IF rs = <<>> THEN <<>>
  ELSE IF Head(rs).value \in seen THEN DedupFrom(Tail(rs), seen)
       ELSE <<Head(rs)>> \o DedupFrom(Tail(rs), seen \cup {Head(rs).value})

\* every in-range match of every sample-size pattern, before deduplication
RawSampleSizes(cfg, text) ==
  IF ~IsSome(cfg.statisticsConfig) THEN <<>>
  ELSE LET samplePatterns == Val(cfg.statisticsConfig).patterns.sampleSize
       IN IF ~IsSome(samplePatterns) THEN <<>>
          ELSE LET ps == Val(samplePatterns)
               IN Concat([i \in 1..Len(ps) |-> PatternSampleSizes(ps[i], text)])

ExtractSampleSizes(cfg, text) == DedupFrom(RawSampleSizes(cfg, text), {})

MaxOfMut(S) == CHOOSE x \in S : \A y \in S : x <= y
MaxOf(S) == CHOOSE x \in S : \A y \in S : y <= x

\* number | null
GetPrimarySampleSize(cfg, text) ==
  With(ExtractSampleSizes(cfg, text), LAMBDA sizes :
    IF Len(sizes) = 0 THEN None
    ELSE Some(MaxOf({sizes[i].value : i \in 1..Len(sizes)})))

----------------------------------------------------------------------------
(* Statistics calculator: sample-size requirements *)

\* the fixed testToFormula table; an unlisted label is its own formula key
TestToFormula(testType) ==
  CASE testType = "t-test" -> "twoGroupComparison"
    [] testType = "tTest" -> "twoGroupComparison"
    [] testType = "paired t-test" -> "pairedComparison"
    [] testType = "correlation" -> "correlation"
    [] testType = "chi-square" -> "chiSquare"
    [] testType = "chiSquare" -> "chiSquare"
    [] testType = "anova" -> "oneWayAnova"
    [] testType = "ANOVA" -> "oneWayAnova"
    [] testType = "regression" -> "regression"
    [] OTHER -> testType

\* the requirement table of a test type, or null
GetSampleSizeRequirements(cfg, testType) ==
  IF ~IsSome(cfg.statisticsConfig) THEN None
  ELSE LET formulas == Val(cfg.statisticsConfig).sampleSizeFormulas
       IN IF ~IsSome(formulas) THEN None
          ELSE LET formulaKey == TestToFormula(testType)
               IN IF formulaKey \notin DOMAIN Val(formulas) THEN None
                  ELSE LET formula == Val(formulas)[formulaKey]
                       IN Some([small |-> formula.minimumRecommended.small_effect,
                                medium |-> formula.minimumRecommended.medium_effect,
                                large |-> formula.minimumRecommended.large_effect])

BelowLargeMut(extractedN, requirements) == extractedN < requirements.medium
\* extractedN < large, the only comparison that makes a sample inadequate
BelowLarge(extractedN, requirements) == extractedN < requirements.large

AssessWithoutRequirementsMut(extractedN, testType) ==
  [adequate |-> FALSE,
   extracted |-> extractedN,
   required |-> [small |-> 0, medium |-> 0, large |-> 0],
   recommendation |-> "may only detect large effects",
   testType |-> testType]
\* the result when no requirement table exists (lines 211-219)
AssessWithoutRequirements(extractedN, testType) ==
  [adequate |-> TRUE,
   extracted |-> extractedN,
   required |-> [small |-> 0, medium |-> 0, large |-> 0],
   recommendation |-> "Unable to determine sample size requirements",
   testType |-> testType]

AssessSampleAdequacy(cfg, extractedN, testType) ==
  LET requirements == GetSampleSizeRequirements(cfg, testType)
  IN IF ~IsSome(requirements)
     THEN AssessWithoutRequirements(extractedN, testType)
     ELSE LET req == Val(requirements)
          IN [adequate |-> ~BelowLarge(extractedN, req),
              extracted |-> extractedN,
              required |-> req,
              recommendation |->
                IF BelowLarge(extractedN, req) THEN "may only detect large effects"
                ELSE IF extractedN < req.medium THEN "adequate for large effects only"
                ELSE IF extractedN < req.small THEN "adequate for medium effects"
                ELSE "adequate for detecting small effects",
              testType |-> testType]

----------------------------------------------------------------------------
(* Statistics calculator: effect sizes *)

\* typeMapping[patternName] || patternName
EffectTypeOf(patternName) ==
  CASE patternName = "partialEtaSquared" -> "etaSquared"
    [] patternName = "phi" -> "cramersV"
    [] OTHER -> patternName

\* the entries one effect-size pattern contributes; new RegExp is not guarded
PatternEffectSizes(entry, text) ==
  LET regex == CompilePattern(entry.source)
  IN IF regex.throws THEN Throw
     ELSE LET ms == AllMatches(entry.source, text)
              one(m) == LET num == FirstNumber(m)
                        IN IF ~IsSome(num) THEN <<>>
                           ELSE <<[type |-> EffectTypeOf(entry.name),
                                   value |-> RatAbs(ParseFloat(Val(num))),
                                   context |-> m]>>
          IN Ok(Concat([i \in 1..Len(ms) |-> one(ms[i])]))

ExtractEffectSizes(cfg, text) ==
  IF ~IsSome(cfg.statisticsConfig) THEN Ok(<<>>)
  ELSE LET effectPatterns == Val(cfg.statisticsConfig).patterns.effectSizes
       IN IF ~IsSome(effectPatterns) THEN Ok(<<>>)
          ELSE LET ps == Val(effectPatterns)
                   each == [i \in 1..Len(ps) |-> PatternEffectSizes(ps[i], text)]
               IN IF \E i \in 1..Len(ps) : each[i].throws THEN Throw
                  ELSE Ok(Concat([i \in 1..Len(ps) |-> each[i].value]))

\* the value compared with the thresholds of an odds ratio
OddsRatioDistanceMut(value) == value
OddsRatioDistance(value) == RatMax(value, Reciprocal(value))

ClassifyMut(x, threshold) ==
  IF ~RatLt(threshold.small, x) THEN "negligible"
  ELSE IF ~RatLt(threshold.medium, x) THEN "small"
  ELSE IF ~RatLt(threshold.large, x) THEN "medium"
  ELSE "large"
\* the if-chain of lines 329-337 and 340-348
Classify(x, threshold) ==
  IF RatLt(x, threshold.small) THEN "negligible"
  ELSE IF RatLt(x, threshold.medium) THEN "small"
  ELSE IF RatLt(x, threshold.large) THEN "medium"
  ELSE "large"

CannedTypes == {"cohensD", "correlationR", "etaSquared", "rSquared", "cramersV", "oddsRatio"}

InterpretEffectSize(cfg, value, type) ==
  IF ~IsSome(cfg.statisticsConfig)
  THEN [magnitude |-> "medium", interpretation |-> <<"Unable to interpret effect size.">>]
  ELSE LET thresholds == Val(cfg.statisticsConfig).effectSizeThresholds
       IN IF ~IsSome(thresholds) \/ type \notin DOMAIN Val(thresholds)
          THEN [magnitude |-> "medium",
                interpretation |-> <<"thresholds not configured", value, type>>]
          ELSE LET threshold == Val(thresholds)[type]
                   magnitude == IF type = "oddsRatio"
                                THEN Classify(OddsRatioDistance(value), threshold)
                                ELSE Classify(RatAbs(value), threshold)
               IN [magnitude |-> magnitude,
                   interpretation |-> <<IF type \in CannedTypes THEN type ELSE "generic",
                                        type, magnitude>>]

AnalyzeEffectSizes(cfg, text) ==
  With(ExtractEffectSizes(cfg, text), LAMBDA extracted :
    IF extracted.throws THEN Throw
    ELSE Ok([i \in 1..Len(extracted.value) |->
              [es |-> extracted.value[i],
               interp |-> InterpretEffectSize(cfg, extracted.value[i].value,
                                              extracted.value[i].type)]]))

----------------------------------------------------------------------------
(* Statistics calculator: study type and statistical tests *)

StudyTypes == <<"experimental", "observational", "qualitative">>

\* the marker patterns of one study type that match the lower-cased text
MatchedMarkers(patterns, lowerText) ==
  SelectSeq(patterns,
            LAMBDA p : IsSome(CompilePatternSafe(p)) /\ Len(AllMatches(p, lowerText)) > 0)

RECURSIVE MaxTypeFromMut(_, _, _, _)
MaxTypeFromMut(counts, i, maxType, maxScore) ==
  IF i > Len(StudyTypes) THEN [type |-> maxType, score |-> maxScore]
  ELSE IF counts[i] >= maxScore
       THEN MaxTypeFromMut(counts, i + 1, StudyTypes[i], counts[i])
       ELSE MaxTypeFromMut(counts, i + 1, maxType, maxScore)

\* the loop of lines 453-459 from index i on: strictly greater replaces the
\* maximum, so the earliest type wins a tie
RECURSIVE MaxTypeFrom(_, _, _, _)
MaxTypeFrom(counts, i, maxType, maxScore) ==
  IF i > Len(StudyTypes) THEN [type |-> maxType, score |-> maxScore]
  ELSE IF counts[i] > maxScore
       THEN MaxTypeFrom(counts, i + 1, StudyTypes[i], counts[i])
       ELSE MaxTypeFrom(counts, i + 1, maxType, maxScore)

ConfidenceOfHalfMut(maxScore, totalScore) ==
  IF totalScore > 0 THEN Rat(maxScore, 2 * totalScore) ELSE Rat(0, 1)

ConfidenceOfMut(maxScore, totalScore) ==
  IF totalScore > 0 THEN Rat(maxScore, totalScore + 1) ELSE Rat(0, 1)

\* maxScore / totalScore behind the totalScore > 0 guard, capped by Math.min
ConfidenceOf(maxScore, totalScore) ==
  With(IF totalScore > 0 THEN Rat(maxScore, totalScore) ELSE Rat(0, 1), LAMBDA confidence :
    IF RatLt(Rat(1, 1), confidence) THEN Rat(1, 1) ELSE confidence)

DetectStudyType(cfg, text) ==
  IF ~IsSome(cfg.statisticsConfig) \/ ~IsSome(Val(cfg.statisticsConfig).studyTypeDetection)
  THEN [type |-> "unknown", confidence |-> Rat(0, 1), matchedPatterns |-> <<>>]
  ELSE LET detection == Val(Val(cfg.statisticsConfig).studyTypeDetection)
           lowerText == ToLowerCase(text)
           matched == [i \in 1..Len(StudyTypes) |->
                         MatchedMarkers(detection[StudyTypes[i]], lowerText)]
           counts == [i \in 1..Len(StudyTypes) |-> Len(matched[i])]
           totalScore == counts[1] + counts[2] + counts[3]
           best == MaxTypeFrom(counts, 1, "experimental", 0)
       IN IF best.score = 0
          THEN [type |-> "unknown", confidence |-> Rat(0, 1), matchedPatterns |-> <<>>]
          ELSE LET k == CHOOSE i \in 1..Len(StudyTypes) : StudyTypes[i] = best.type
               IN [type |-> best.type,
                   confidence |-> ConfidenceOf(best.score, totalScore),
                   matchedPatterns |-> matched[k]]

\* testNames[patternName] || patternName
TestDisplayName(patternName) ==
  CASE patternName = "tTest" -> "t-test"
    [] patternName = "pairedTTest" -> "Paired t-test"
    [] patternName = "anova" -> "ANOVA"
    [] patternName = "chiSquare" -> "Chi-square"
    [] OTHER -> patternName

\* at most one entry per registered test pattern: its first match
DetectStatisticalTests(cfg, text) ==
  IF ~IsSome(cfg.statisticsConfig) THEN <<>>
  ELSE LET testPatterns == Val(cfg.statisticsConfig).patterns.tests
       IN IF ~IsSome(testPatterns) THEN <<>>
          ELSE LET ps == Val(testPatterns)
                   one(entry) ==
                     IF ~IsSome(CompilePatternSafe(entry.source)) THEN <<>>
                     ELSE LET ms == AllMatches(entry.source, text)
                          IN IF Len(ms) = 0 THEN <<>>
                             ELSE <<[test |-> TestDisplayName(entry.name),
                                     configKey |-> entry.name,
                                     context |-> ms[1]]>>
               IN Concat([i \in 1..Len(ps) |-> one(ps[i])])

CalculateStatistics(cfg, text) ==
  With(ExtractSampleSizes(cfg, text), LAMBDA sampleSizes :
  With(GetPrimarySampleSize(cfg, text), LAMBDA primarySampleSize :
  With(AnalyzeEffectSizes(cfg, text), LAMBDA effectSizes :
  With(DetectStudyType(cfg, text), LAMBDA studyType :
  With(DetectStatisticalTests(cfg, text), LAMBDA detectedTests :
    IF effectSizes.throws THEN Throw
    ELSE Ok([sampleSizes |-> sampleSizes,
             primarySampleSize |-> primarySampleSize,
             effectSizes |-> effectSizes.value,
             studyType |-> studyType,
             detectedTests |-> detectedTests,
             sampleAdequacy |->
               IF IsSome(primarySampleSize) /\ Len(detectedTests) > 0
               THEN Some(AssessSampleAdequacy(cfg, Val(primarySampleSize),
                                              detectedTests[1].configKey))
               ELSE None]))))))

----------------------------------------------------------------------------
(* Statistics linter: pattern registry and the compiled-pattern cache *)

\* the dotted paths used by the configurations below, with patternPath.split('.')
\* (every other key has no dot and splits into itself)
KnownPaths ==
  { <<"pValue.reported", <<"pValue", "reported">> >>,
    <<"pValue.zero", <<"pValue", "zero">> >>,
    <<"effectSizes.cohensD", <<"effectSizes", "cohensD">> >>,
    <<"confidenceInterval.ci95", <<"confidenceInterval", "ci95">> >>,
    <<"sampleSize.nEquals", <<"sampleSize", "nEquals">> >>,
    <<"sampleSize.total", <<"sampleSize", "total">> >>,
    <<"sampleSize.label", <<"sampleSize", "label">> >>,
    <<"tests.tTest", <<"tests", "tTest">> >>,
    <<"tests.anova", <<"tests", "anova">> >>,
    <<"tests.mixedModel", <<"tests", "mixedModel">> >>,
    <<"corrections.bonferroni", <<"corrections", "bonferroni">> >>,
    <<"corrections.missing", <<"corrections", "missing">> >>,
    <<"studyDesign.blinding", <<"studyDesign", "blinding">> >> }

SplitPath(path) ==
  IF \E kp \in KnownPaths : kp[1] = path
  THEN (CHOOSE kp \in KnownPaths : kp[1] = path)[2]
  ELSE <<path>>

\* `${category}.${key}`
JoinPath(category, key) ==
  (CHOOSE kp \in KnownPaths : kp[2] = <<category, key>>)[1]

EntryNamed(entries, name) ==
  LET hits == {i \in 1..Len(entries) : entries[i].name = name}
  IN IF hits = {} THEN None ELSE Some(entries[CHOOSE i \in hits : TRUE].source)

\* the registry string a dotted path resolves to, or null
GetPatternString(cfg, patternPath) ==
  IF ~IsSome(cfg.statisticsConfig) THEN None
  ELSE LET patterns == Val(cfg.statisticsConfig).patterns
           parts == SplitPath(patternPath)
       IN IF Len(parts) # 2 THEN None
          ELSE IF parts[1] \notin DOMAIN patterns THEN None
          ELSE IF ~IsSome(patterns[parts[1]]) THEN None
          ELSE EntryNamed(Val(patterns[parts[1]]), parts[2])

\* the source getCompiledPattern compiles for a key that is not cached
SourceOf(cfg, patternPath) ==
  LET patternStr == GetPatternString(cfg, patternPath)
  IN IF ~IsSome(patternStr) \/ Val(patternStr) = "" THEN patternPath
     ELSE Val(patternStr)

GetCompiledPatternMut(cfg, cache, patternPath) ==
  IF patternPath \in DOMAIN cache
  THEN With(CompilePattern(patternPath), LAMBDA r :
         IF r.throws THEN [cache |-> cache, regex |-> None]
         ELSE [cache |-> [cache EXCEPT ![patternPath] = r.value], regex |-> Some(r.value)])
  ELSE With(CompilePattern(SourceOf(cfg, patternPath)), LAMBDA r :
         IF r.throws THEN [cache |-> cache, regex |-> None]
         ELSE [cache |-> cache @@ (patternPath :> r.value), regex |-> Some(r.value)])
\* returns the regex (or null) and the cache after the call
GetCompiledPattern(cfg, cache, patternPath) ==
  IF patternPath \in DOMAIN cache
  THEN [cache |-> cache, regex |-> Some(cache[patternPath])]
  ELSE With(CompilePattern(SourceOf(cfg, patternPath)), LAMBDA r :
         IF r.throws THEN [cache |-> cache, regex |-> None]
         ELSE [cache |-> cache @@ (patternPath :> r.value), regex |-> Some(r.value)])

\* a scan that resumes at regex.lastIndex, stops at the first match and leaves
\* lastIndex behind it, as RegExp.prototype.exec and test do on a global regex
StringMatchMut(text, regex) ==
  LET all == AllMatches(regex.source, text)
      hits == {i \in 1..Len(text) : i > regex.lastIndex /\ text[i] \in RegexLang(regex.source)}
  IN IF regex.source = EmptyTextSource THEN [matches |-> all, lastIndex |-> 0]
     ELSE IF hits = {} THEN [matches |-> <<>>, lastIndex |-> 0]
     ELSE LET i == CHOOSE k \in hits : \A m \in hits : k <= m
          IN [matches |-> <<text[i]>>, lastIndex |-> i]
\* text.match(pattern) with a global regex: lastIndex is set to 0, every match
\* is collected, and the failing last exec leaves lastIndex at 0
StringMatch(text, regex) ==
  [matches |-> AllMatches(regex.source, text), lastIndex |-> 0]

\* getCompiledPattern(path) followed by countMatches / findMatches on the regex
\* it returns, which is the object held in the cache
MatchPath(cfg, cache, path, text) ==
  With(GetCompiledPattern(cfg, cache, path), LAMBDA g :
    IF ~IsSome(g.regex) THEN [cache |-> g.cache, compiled |-> FALSE, matches |-> <<>>]
    ELSE With(StringMatch(text, Val(g.regex)), LAMBDA m :
           [cache |-> [g.cache EXCEPT ![path].lastIndex = m.lastIndex],
            compiled |-> TRUE,
            matches |-> m.matches]))

\* matchesAny: stops at the first path that matches
RECURSIVE MatchesAny(_, _, _, _)
MatchesAny(cfg, cache, text, patternPaths) ==
  IF patternPaths = <<>> THEN [cache |-> cache, value |-> FALSE]
  ELSE With(MatchPath(cfg, cache, Head(patternPaths), text), LAMBDA m :
         IF m.compiled /\ Len(m.matches) > 0 THEN [cache |-> m.cache, value |-> TRUE]
         ELSE MatchesAny(cfg, m.cache, text, Tail(patternPaths)))

MissingAllMut(cfg, cache, text, patternPaths) ==
  With(MatchesAny(cfg, cache, text, patternPaths), LAMBDA any :
    [cache |-> any.cache, value |-> TRUE])
\* missingAll: stops at the first path that matches
MissingAll(cfg, cache, text, patternPaths) ==
  With(MatchesAny(cfg, cache, text, patternPaths), LAMBDA any :
    [cache |-> any.cache, value |-> ~any.value])

----------------------------------------------------------------------------
(* Statistics linter: rule evaluation *)

NotTriggered(cache) == [cache |-> cache, triggered |-> FALSE, matches |-> None]
TriggeredMut(cache, matches) == [cache |-> cache, triggered |-> TRUE, matches |-> None]
\* { triggered: true, matches } or { triggered: true }
Triggered(cache, matches) == [cache |-> cache, triggered |-> TRUE, matches |-> matches]

RECURSIVE EvaluateMatchPatternsMut(_, _, _, _)
EvaluateMatchPatternsMut(cfg, cache, text, patternPaths) ==
  IF patternPaths = <<>> THEN NotTriggered(cache)
  ELSE With(MatchPath(cfg, cache, Head(patternPaths), text), LAMBDA m :
       With(EvaluateMatchPatternsMut(cfg, m.cache, text, Tail(patternPaths)), LAMBDA rest :
         IF rest.triggered THEN rest
         ELSE IF m.compiled /\ Len(m.matches) > 0 THEN Triggered(rest.cache, Some(m.matches))
         ELSE NotTriggered(rest.cache)))

\* the matchPatterns loop: the first pattern with a match decides
RECURSIVE EvaluateMatchPatterns(_, _, _, _)
EvaluateMatchPatterns(cfg, cache, text, patternPaths) ==
  IF patternPaths = <<>> THEN NotTriggered(cache)
  ELSE With(MatchPath(cfg, cache, Head(patternPaths), text), LAMBDA m :
         IF m.compiled /\ Len(m.matches) > 0 THEN Triggered(m.cache, Some(m.matches))
         ELSE EvaluateMatchPatterns(cfg, m.cache, text, Tail(patternPaths)))

EvaluateCountCheck(cfg, cache, condition, text) ==
  With(MatchPath(cfg, cache, Val(condition.pattern), text), LAMBDA m :
    IF m.compiled /\ Len(m.matches) >= Val(condition.threshold)
    THEN IF IsSome(condition.missingAllPatterns)
         THEN With(MissingAll(cfg, m.cache, text, Val(condition.missingAllPatterns)),
                   LAMBDA miss : IF miss.value THEN Triggered(miss.cache, None)
                                 ELSE NotTriggered(miss.cache))
         ELSE Triggered(m.cache, None)
    ELSE NotTriggered(m.cache))

EvaluateSampleSizeCheckMut(cfg, cache, text) ==
  With(GetPrimarySampleSize(cfg, text), LAMBDA sampleSize :
    With(DetectStatisticalTests(cfg, text), LAMBDA tests :
      IF IsSome(sampleSize) /\ Val(sampleSize) # 0 /\ Len(tests) > 0
         /\ ~AssessSampleAdequacy(cfg, Val(sampleSize), tests[Len(tests)].configKey).adequate
      THEN Triggered(cache, None)
      ELSE NotTriggered(cache)))
\* getPrimarySampleSize, detectStatisticalTests and the adequacy of the sample
\* for tests[0]
EvaluateSampleSizeCheck(cfg, cache, text) ==
  With(GetPrimarySampleSize(cfg, text), LAMBDA sampleSize :
    With(DetectStatisticalTests(cfg, text), LAMBDA tests :
      IF IsSome(sampleSize) /\ Val(sampleSize) # 0 /\ Len(tests) > 0
         /\ ~AssessSampleAdequacy(cfg, Val(sampleSize), tests[1].configKey).adequate
      THEN Triggered(cache, None)
      ELSE NotTriggered(cache)))

EvaluateHasAnyMissingAllMut(cfg, cache, condition, text) ==
  With(MissingAll(cfg, cache, text, Val(condition.missingAllPatterns)),
       LAMBDA miss : IF miss.value THEN Triggered(miss.cache, None)
                     ELSE NotTriggered(miss.cache))
\* matchesAny(hasAnyPattern) && missingAll(missingAllPatterns)
EvaluateHasAnyMissingAll(cfg, cache, condition, text) ==
  With(MatchesAny(cfg, cache, text, Val(condition.hasAnyPattern)), LAMBDA any :
    IF ~any.value THEN NotTriggered(any.cache)
    ELSE With(MissingAll(cfg, any.cache, text, Val(condition.missingAllPatterns)),
              LAMBDA miss : IF miss.value THEN Triggered(miss.cache, None)
                            ELSE NotTriggered(miss.cache)))

\* a string is truthy when it is not empty
TruthyString(o) == IsSome(o) /\ Val(o) # ""

EvaluateConditionMut(cfg, cache, condition, text, sectionId) ==
  IF TruthyString(condition.matchPattern)
  THEN With(MatchPath(cfg, cache, Val(condition.matchPattern), text), LAMBDA m :
         IF IsSome(condition.sections) /\ ~Contains(Val(condition.sections), sectionId)
         THEN NotTriggered(m.cache)
         ELSE IF m.compiled /\ Len(m.matches) > 0 THEN Triggered(m.cache, Some(m.matches))
         ELSE NotTriggered(m.cache))
  ELSE IF IsSome(condition.matchPatterns)
  THEN With(EvaluateMatchPatterns(cfg, cache, text, Val(condition.matchPatterns)), LAMBDA r :
         IF IsSome(condition.sections) /\ ~Contains(Val(condition.sections), sectionId)
         THEN NotTriggered(r.cache)
         ELSE r)
  ELSE NotTriggered(cache)

\* the first branch that applies decides, in the order of the code
EvaluateCondition(cfg, cache, condition, text, sectionId) ==
  IF IsSome(condition.sections) /\ ~Contains(Val(condition.sections), sectionId)
  THEN NotTriggered(cache)
  ELSE IF TruthyString(condition.matchPattern)
  THEN With(MatchPath(cfg, cache, Val(condition.matchPattern), text), LAMBDA m :
         IF m.compiled /\ Len(m.matches) > 0 THEN Triggered(m.cache, Some(m.matches))
         ELSE NotTriggered(m.cache))
  ELSE IF IsSome(condition.matchPatterns)
  THEN EvaluateMatchPatterns(cfg, cache, text, Val(condition.matchPatterns))
  ELSE IF condition.type = Some("count-check") /\ TruthyString(condition.pattern)
          /\ IsSome(condition.threshold) /\ Val(condition.threshold) # 0
  THEN EvaluateCountCheck(cfg, cache, condition, text)
  ELSE IF condition.type = Some("sample-size-check")
  THEN EvaluateSampleSizeCheck(cfg, cache, text)
  ELSE IF IsSome(condition.hasAnyPattern) /\ IsSome(condition.missingAllPatterns)
  THEN EvaluateHasAnyMissingAll(cfg, cache, condition, text)
  ELSE NotTriggered(cache)

\* the issues of one rule; an issue id is `${sectionId}-${rule.id}-${idx}`
ProcessRule(cfg, cache, rule, text, sectionId) ==
  With(EvaluateCondition(cfg, cache, rule.condition, text, sectionId), LAMBDA r :
    IF ~r.triggered THEN [issues |-> <<>>, cache |-> r.cache]
    ELSE IF IsSome(r.matches) /\ Len(Val(r.matches)) > 0
    THEN [issues |-> [idx \in 1..Len(Val(r.matches)) |->
                       LET match == Val(r.matches)[idx]
                       IN [id |-> <<sectionId, rule.id, ToString(idx - 1)>>,
                           severity |-> rule.severity,
                           description |-> IF match # <<>>
                                           THEN <<rule.description, match>>
                                           ELSE <<rule.description>>,
                           location |-> Some(match),
                           suggestion |-> rule.suggestion]],
          cache |-> r.cache]
    ELSE [issues |-> <<[id |-> <<sectionId, rule.id, "0">>,
                        severity |-> rule.severity,
                        description |-> <<rule.description>>,
                        location |-> None,
                        suggestion |-> rule.suggestion]>>,
          cache |-> r.cache])

----------------------------------------------------------------------------
(* Statistics linter: study-design checklist *)

EvaluateCheckItemMut(cfg, cache, item, text) ==
  With(IF TruthyString(item.patternRef)
       THEN With(MatchPath(cfg, cache, Val(item.patternRef), text), LAMBDA m :
              [cache |-> m.cache, passed |-> m.compiled /\ Len(m.matches) > 0])
       ELSE [cache |-> cache, passed |-> FALSE],
       LAMBDA single :
    With(IF IsSome(item.patternRefs)
         THEN With(MatchesAny(cfg, single.cache, text, Val(item.patternRefs)), LAMBDA any :
                [cache |-> any.cache, passed |-> single.passed \/ any.value])
         ELSE single,
         LAMBDA multi :
      [item |-> [checkItem |-> item.id, label |-> item.label, passed |-> multi.passed,
                 severity |-> item.severity],
       cache |-> multi.cache]))
\* patternRef first; a patternRefs list, when present, overwrites the outcome
EvaluateCheckItem(cfg, cache, item, text) ==
  With(IF TruthyString(item.patternRef)
       THEN With(MatchPath(cfg, cache, Val(item.patternRef), text), LAMBDA m :
              [cache |-> m.cache, passed |-> m.compiled /\ Len(m.matches) > 0])
       ELSE [cache |-> cache, passed |-> FALSE],
       LAMBDA single :
    With(IF IsSome(item.patternRefs)
         THEN With(MatchesAny(cfg, single.cache, text, Val(item.patternRefs)), LAMBDA any :
                [cache |-> any.cache, passed |-> any.value])
         ELSE single,
         LAMBDA multi :
      [item |-> [checkItem |-> item.id, label |-> item.label, passed |-> multi.passed,
                 severity |-> item.severity],
       cache |-> multi.cache]))

RECURSIVE EvaluateCheckItems(_, _, _, _)
EvaluateCheckItems(cfg, cache, items, text) ==
  IF items = <<>> THEN [cache |-> cache, items |-> <<>>]
  ELSE With(EvaluateCheckItem(cfg, cache, Head(items), text), LAMBDA first :
         With(EvaluateCheckItems(cfg, first.cache, Tail(items), text), LAMBDA rest :
           [items |-> <<first.item>> \o rest.items, cache |-> rest.cache]))

EvaluateStudyDesignChecklist(cfg, cache, text, studyType) ==
  IF ~IsSome(cfg.statisticsConfig) \/ ~IsSome(Val(cfg.statisticsConfig).studyDesignChecklist)
  THEN [cache |-> cache, items |-> <<>>]
  ELSE LET all == Val(Val(cfg.statisticsConfig).studyDesignChecklist)
       IN IF studyType \notin DOMAIN all THEN [cache |-> cache, items |-> <<>>]
          ELSE EvaluateCheckItems(cfg, cache, all[studyType], text)

GenerateChecklistIssuesMut(checklist, sectionId, studyType) ==
  [i \in 1..Len(checklist) |->
     [id |-> <<sectionId, "checklist", checklist[i].checkItem>>,
      severity |-> checklist[i].severity,
      description |-> <<studyType, "study", checklist[i].label, "not found">>,
      location |-> None,
      suggestion |-> <<"Consider addressing", checklist[i].label>>]]

\* one issue per item that did not pass
GenerateChecklistIssues(checklist, sectionId, studyType) ==
  LET one(item) == IF item.passed THEN <<>>
                   ELSE <<[id |-> <<sectionId, "checklist", item.checkItem>>,
                           severity |-> item.severity,
                           description |-> <<studyType, "study", item.label, "not found">>,
                           location |-> None,
                           suggestion |-> <<"Consider addressing", item.label>>]>>
  IN Concat([i \in 1..Len(checklist) |-> one(checklist[i])])

----------------------------------------------------------------------------
(* Statistics linter: counting and the entry point *)

\* the sum of the match counts of `${category}.${key}` over the keys of a category
RECURSIVE CountKeys(_, _, _, _, _)
CountKeys(cfg, cache, category, entries, text) ==
  IF entries = <<>> THEN [cache |-> cache, count |-> 0]
  ELSE With(MatchPath(cfg, cache, JoinPath(category, Head(entries).name), text), LAMBDA m :
         With(CountKeys(cfg, m.cache, category, Tail(entries), text), LAMBDA rest :
           [count |-> Len(m.matches) + rest.count, cache |-> rest.cache]))

ZeroStats ==
  [pValues |-> 0, effectSizes |-> 0, confidenceIntervals |-> 0, sampleSizes |-> 0,
   statisticalTests |-> 0]

CountStatisticalElements(cfg, cache, text) ==
  IF ~IsSome(cfg.statisticsConfig) THEN [cache |-> cache, stats |-> ZeroStats]
  ELSE LET patterns == Val(cfg.statisticsConfig).patterns
           keys(category) == IF IsSome(patterns[category]) THEN Val(patterns[category])
                             ELSE <<>>
       IN With(MatchPath(cfg, cache, "pValue.reported", text), LAMBDA p :
          With(CountKeys(cfg, p.cache, "effectSizes", keys("effectSizes"), text), LAMBDA e :
          With(CountKeys(cfg, e.cache, "confidenceInterval", keys("confidenceInterval"), text),
               LAMBDA c :
          With(CountKeys(cfg, c.cache, "sampleSize", keys("sampleSize"), text), LAMBDA n :
          With(CountKeys(cfg, n.cache, "tests", keys("tests"), text), LAMBDA t :
            [stats |-> [pValues |-> Len(p.matches), effectSizes |-> e.count,
                        confidenceIntervals |-> c.count, sampleSizes |-> n.count,
                        statisticalTests |-> t.count],
             cache |-> t.cache])))))

\* config.externalCheckers?.statisticsLinter
LintConfig(cfg) ==
  IF IsSome(cfg.externalCheckers) THEN Val(cfg.externalCheckers).statisticsLinter
  ELSE None

LintEnabledMut(cfg) == IsSome(LintConfig(cfg))
\* lintConfig?.enabled
LintEnabled(cfg) == IsSome(LintConfig(cfg)) /\ Val(LintConfig(cfg)).enabled

EffectiveListMut(fromOptions, fromConfig) ==
  IF IsSome(fromOptions) /\ Val(fromOptions) # <<>> THEN Val(fromOptions)
  ELSE IF IsSome(fromConfig) THEN Val(fromConfig)
  ELSE <<>>
\* options?.enabledRules || lintConfig.enabledRules || []  (an empty list is truthy)
EffectiveList(fromOptions, fromConfig) ==
  IF IsSome(fromOptions) THEN Val(fromOptions)
  ELSE IF IsSome(fromConfig) THEN Val(fromConfig)
  ELSE <<>>

OptionOf(options, field) == IF IsSome(options) THEN Val(options)[field] ELSE None

SkipRuleMut(rule, enabledRules, disabledRules) ==
  Contains(disabledRules, rule.id) /\ ~Contains(enabledRules, rule.id)

\* the two `continue` tests of the loop (lines 458-459)
SkipRule(rule, enabledRules, disabledRules) ==
  \/ Contains(disabledRules, rule.id)
  \/ Len(enabledRules) > 0 /\ ~Contains(enabledRules, rule.id)

RECURSIVE ProcessRulesMut(_, _, _, _, _, _, _)
ProcessRulesMut(cfg, cache, rules, text, sectionId, enabledRules, disabledRules) ==
  IF rules = <<>> THEN [cache |-> cache, issues |-> <<>>, ruleResults |-> <<>>]
  ELSE LET rule == Head(rules)
           skip == SkipRule(rule, enabledRules, disabledRules)
       IN With(IF skip THEN [issues |-> <<>>, cache |-> cache]
               ELSE ProcessRule(cfg, cache, rule, text, sectionId),
               LAMBDA this :
          With(ProcessRulesMut(cfg, this.cache, Tail(rules), text, sectionId,
                               enabledRules, disabledRules),
               LAMBDA rest :
            [issues |-> rest.issues \o this.issues,
             ruleResults |->
               (IF skip THEN <<>>
                ELSE <<[ruleId |-> rule.id, ruleName |-> rule.name,
                        issueCount |-> Len(this.issues)]>>) \o rest.ruleResults,
             cache |-> rest.cache]))

\* the loop over the validation rules (lines 456-469)
RECURSIVE ProcessRules(_, _, _, _, _, _, _)
ProcessRules(cfg, cache, rules, text, sectionId, enabledRules, disabledRules) ==
  IF rules = <<>> THEN [cache |-> cache, issues |-> <<>>, ruleResults |-> <<>>]
  ELSE LET rule == Head(rules)
           skip == SkipRule(rule, enabledRules, disabledRules)
       IN With(IF skip THEN [issues |-> <<>>, cache |-> cache]
               ELSE ProcessRule(cfg, cache, rule, text, sectionId),
               LAMBDA this :
          With(ProcessRules(cfg, this.cache, Tail(rules), text, sectionId,
                            enabledRules, disabledRules),
               LAMBDA rest :
            [issues |-> this.issues \o rest.issues,
             ruleResults |->
               (IF skip THEN <<>>
                ELSE <<[ruleId |-> rule.id, ruleName |-> rule.name,
                        issueCount |-> Len(this.issues)]>>) \o rest.ruleResults,
             cache |-> rest.cache]))

DisabledResult ==
  [issues |-> <<>>, ruleResults |-> <<>>, stats |-> ZeroStats,
   studyType |-> [type |-> "unknown", confidence |-> Rat(0, 1)],
   studyDesignChecklist |-> None, sampleAdequacy |-> None]

\* returns the StatisticsLintResult and the cache after the call
LintStatistics(cfg, cache, text, sectionId, options) ==
  IF ~LintEnabled(cfg) THEN [cache |-> cache, result |-> DisabledResult]
  ELSE
  LET lintConfig == Val(LintConfig(cfg))
      enabledRules == EffectiveList(OptionOf(options, "enabledRules"), lintConfig.enabledRules)
      disabledRules == EffectiveList(OptionOf(options, "disabledRules"),
                                     lintConfig.disabledRules)
      validationRules == IF IsSome(cfg.statisticsConfig)
                            /\ IsSome(Val(cfg.statisticsConfig).validationRules)
                         THEN Val(Val(cfg.statisticsConfig).validationRules)
                         ELSE <<>>
  IN
  With(ProcessRules(cfg, cache, validationRules, text, sectionId,
                    enabledRules, disabledRules), LAMBDA rules :
  With(DetectStudyType(cfg, text), LAMBDA detected :
  With(OptionOf(options, "includeChecklist") # Some(FALSE)
       /\ detected.type # "unknown"
       /\ RatLt(Rat(3, 10), detected.confidence)
       /\ sectionId \in {"methodology", "methods"}, LAMBDA withChecklist :
  With(IF withChecklist
       THEN EvaluateStudyDesignChecklist(cfg, rules.cache, text, detected.type)
       ELSE [items |-> <<>>, cache |-> rules.cache], LAMBDA checklist :
  With(IF withChecklist
       THEN GenerateChecklistIssues(checklist.items, sectionId, detected.type)
       ELSE <<>>, LAMBDA checklistIssues :
  With(GetPrimarySampleSize(cfg, text), LAMBDA primarySample :
  With(DetectStatisticalTests(cfg, text), LAMBDA tests :
  With(IF OptionOf(options, "includeSampleAdequacy") # Some(FALSE)
          /\ IsSome(primarySample) /\ Val(primarySample) # 0 /\ Len(tests) > 0
       THEN With(AssessSampleAdequacy(cfg, Val(primarySample), tests[1].configKey),
                 LAMBDA a : Some([extracted |-> a.extracted, required |-> a.required,
                                  adequate |-> a.adequate,
                                  recommendation |-> a.recommendation]))
       ELSE None, LAMBDA sampleAdequacy :
  With(CountStatisticalElements(cfg, checklist.cache, text), LAMBDA counted :
    [result |-> [issues |-> rules.issues \o checklistIssues,
                 ruleResults |-> rules.ruleResults,
                 studyType |-> [type |-> detected.type, confidence |-> detected.confidence],
                 studyDesignChecklist |-> IF withChecklist THEN Some(checklist.items)
                                         ELSE None,
                 sampleAdequacy |-> sampleAdequacy,
                 stats |-> counted.stats],
     cache |-> counted.cache])))))))))

----------------------------------------------------------------------------
(* Academic writing linter: a fixed list of rules, each with its own check.
   A text is one sentence, given as its sequence of words. *)

AcademicRules ==
  <<[id |-> "weasel-words", name |-> "Weasel Words"],
    [id |-> "passive-voice-excessive", name |-> "Excessive Passive Voice"],
    [id |-> "nominalization", name |-> "Nominalization"],
    [id |-> "redundant-phrases", name |-> "Redundant Phrases"],
    [id |-> "weak-starters", name |-> "Weak Sentence Starters"],
    [id |-> "hedge-clustering", name |-> "Hedge Word Clustering"],
    [id |-> "latin-abbreviations", name |-> "Latin Abbreviations"],
    [id |-> "sentence-variety", name |-> "Sentence Length Variety"],
    [id |-> "repeated-starts", name |-> "Repeated Sentence Starts"]>>

\* rule.check(text, sectionId) on a text of one sentence
AcademicCheck(ruleId, text, sectionId) ==
  LET \* one issue per listed word found in the text, numbered in list order
      perWord(kind, severity, words) ==
        LET found == SelectSeq(words, LAMBDA w : Contains(text, w))
        IN [i \in 1..Len(found) |->
              [id |-> <<sectionId, kind, ToString(i - 1)>>, severity |-> severity,
               description |-> <<kind, found[i]>>, location |-> Some(found[i])]]
      sentences == IF text = <<>> THEN 0 ELSE 1
      passive == Cardinality({i \in 1..(Len(text) - 1) :
                                text[i] = "was" /\ text[i + 1] = "tested"})
      hedgeCount == Cardinality({i \in 1..Len(text) : text[i] \in {"may", "might"}})
  IN CASE ruleId = "weasel-words" -> perWord("weasel", "consider", <<"many", "very">>)
       [] ruleId = "passive-voice-excessive" ->
            IF sentences > 0 /\ RatLt(Rat(1, 2), Rat(passive, sentences))
            THEN <<[id |-> <<sectionId, "passive-excessive">>, severity |-> "consider",
                    description |-> <<"passive", passive, sentences>>, location |-> None]>>
            ELSE <<>>
       [] ruleId = "nominalization" -> perWord("nominal", "consider", <<"utilization">>)
       [] ruleId = "hedge-clustering" ->
            IF sentences > 0 /\ hedgeCount >= 2
            THEN <<[id |-> <<sectionId, "hedge-cluster", "0">>, severity |-> "should-fix",
                    description |-> <<"hedges", hedgeCount>>, location |-> Some(text)]>>
            ELSE <<>>
       \* the words hold no redundant phrase and no latin abbreviation; one
       \* sentence has one sentence start, and it is fewer than 5 sentences
       [] OTHER -> <<>>

LintAcademicTextMut(cfg, text, sectionId, options) ==
  LET lintConfig == IF IsSome(cfg.externalCheckers)
                    THEN Val(cfg.externalCheckers).academicLinter ELSE None
  IN IF ~IsSome(lintConfig) \/ ~Val(lintConfig).enabled
     THEN [issues |-> <<>>, ruleResults |-> <<>>]
     ELSE LET enabledRules == EffectiveList(OptionOf(options, "enabledRules"),
                                            Val(lintConfig).enabledRules)
              disabledRules == EffectiveList(OptionOf(options, "disabledRules"),
                                             Val(lintConfig).disabledRules)
              rulesToRun == SelectSeq(AcademicRules, LAMBDA rule :
                                        /\ Len(enabledRules) = 0 \/ Contains(enabledRules, rule.id)
                                        /\ ~Contains(disabledRules, rule.id))
              issues == [i \in 1..Len(rulesToRun) |->
                           AcademicCheck(rulesToRun[i].id, text, sectionId)]
          IN [issues |-> Concat(issues),
              ruleResults |-> [i \in 1..Len(rulesToRun) |->
                                 [ruleId |-> rulesToRun[i].id, ruleName |-> rulesToRun[i].name,
                                  issueCount |-> Len(issues[i])]]]

LintAcademicText(cfg, text, sectionId, options) ==
  LET lintConfig == IF IsSome(cfg.externalCheckers)
                    THEN Val(cfg.externalCheckers).academicLinter ELSE None
  IN IF ~IsSome(lintConfig) \/ ~Val(lintConfig).enabled
     THEN [issues |-> <<>>, ruleResults |-> <<>>]
     ELSE LET \* options?.enabledRules || lintConfig.enabledRules || all the rule ids
              enabledRules ==
                IF IsSome(OptionOf(options, "enabledRules"))
                   \/ IsSome(Val(lintConfig).enabledRules)
                THEN EffectiveList(OptionOf(options, "enabledRules"),
                                   Val(lintConfig).enabledRules)
                ELSE [i \in 1..Len(AcademicRules) |-> AcademicRules[i].id]
              disabledRules == EffectiveList(OptionOf(options, "disabledRules"),
                                             Val(lintConfig).disabledRules)
              rulesToRun == SelectSeq(AcademicRules, LAMBDA rule :
                                        /\ Contains(enabledRules, rule.id)
                                        /\ ~Contains(disabledRules, rule.id))
              issues == [i \in 1..Len(rulesToRun) |->
                           AcademicCheck(rulesToRun[i].id, text, sectionId)]
          IN [issues |-> Concat(issues),
              ruleResults |-> [i \in 1..Len(rulesToRun) |->
                                 [ruleId |-> rulesToRun[i].id, ruleName |-> rulesToRun[i].name,
                                  issueCount |-> Len(issues[i])]]]

----------------------------------------------------------------------------
(* Reference checks.  A text is here a sequence of lines, a line a sequence
   of words; a citation is a word "[" digits "]". *)

\* a match of /\[(\d+)\]/
IsCitation(w) ==
  /\ Len(w) >= 3
  /\ w[1] = "[" /\ w[Len(w)] = "]"
  /\ \A i \in 2..(Len(w) - 1) : w[i] \in Digits

\* parseInt(c.slice(1, -1))
CitationNumber(c) == ParseInt(SubSeq(c, 2, Len(c) - 1))

RECURSIVE DistinctFromMut(_, _)
DistinctFromMut(ns, seen) == ns

\* [...new Set(ns)]: the first occurrence of every number, in order
RECURSIVE DistinctFrom(_, _)
DistinctFrom(ns, seen) ==
  IF ns = <<>> THEN <<>>
  ELSE IF Head(ns) \in seen THEN DistinctFrom(Tail(ns), seen)
  ELSE <<Head(ns)>> \o DistinctFrom(Tail(ns), seen \cup {Head(ns)})

\* the numbers cited anywhere in the paper, each once
CitedNumbers(fullPaperText) ==
  LET paperCitations == SelectSeq(Concat(fullPaperText), IsCitation)
  IN DistinctFrom([i \in 1..Len(paperCitations) |-> CitationNumber(paperCitations[i])], {})

\* the numbers of the entries: the matches of /^\[(\d+)\]/gm, one per line
\* that starts with a citation
DefinedNumbers(text) ==
  LET entries == SelectSeq(text, LAMBDA line : line # <<>> /\ IsCitation(Head(line)))
  IN [i \in 1..Len(entries) |-> CitationNumber(Head(entries[i]))]

\* new RegExp(keywords.join('|'), 'i').test(text); no keyword gives the
\* empty source, which matches every text
HasAccessDate(keywords, text) ==
  keywords = <<>> \/ \E k \in 1..Len(keywords) : Contains(Concat(text), keywords[k])

\* an issue id is `${sectionId}-ref-${kind}-${idx}`
AnalyzeReferences(cfg, text, fullPaperText, sectionId) ==
  LET refConfig == cfg.referenceValidation
      sev == cfg.patternSeverity
      citedNumbers == CitedNumbers(fullPaperText)
      definedNumbers == DefinedNumbers(text)
      orphans == IF refConfig.checkOrphanReferences
                 THEN SelectSeq(definedNumbers, LAMBDA num : ~Contains(citedNumbers, num))
                 ELSE <<>>
      missing == IF refConfig.checkMissingReferences
                 THEN SelectSeq(citedNumbers, LAMBDA num : ~Contains(definedNumbers, num))
                 ELSE <<>>
      urls == SelectSeq(Concat(text), LAMBDA w : w = wUrl)
      undated == refConfig.requireAccessDates /\ Len(urls) > 0
                   /\ ~HasAccessDate(refConfig.accessDateKeywords, text)
  IN [i \in 1..Len(orphans) |->
        [id |-> <<sectionId, "ref-orphan", i - 1>>,
         severity |-> sev.orphanReferences,
         description |-> <<"Reference", orphans[i], "is defined but never cited">>,
         suggestion |-> "Remove unused reference or add citation in text"]]
     \o [i \in 1..Len(missing) |->
          [id |-> <<sectionId, "ref-missing", Len(orphans) + i - 1>>,
           severity |-> sev.missingReferences,
           description |-> <<"Citation", missing[i], "has no corresponding reference">>,
           suggestion |-> "Add reference entry or fix citation number"]]
     \o (IF undated
         THEN <<[id |-> <<sectionId, "ref-url", Len(orphans) + Len(missing)>>,
                 severity |-> sev.orphanReferences,
                 description |-> <<Len(urls), "URL(s) found without access dates">>,
                 suggestion |-> "Add \"Accessed: [date]\" for web references"]>>
         ELSE <<>>)

----------------------------------------------------------------------------
(* Configurations: the in-memory shape of analysis-config.yaml *)

Entry(name, source) == [name |-> name, source |-> source]

GoodPatterns ==
  [pValue |-> Some(<<Entry("reported", "p[<=][.][0-9]+"), Entry("zero", "p=[.]0+")>>),
   effectSizes |-> Some(<<Entry("cohensD", "d=-?[.][0-9]+")>>),
   sampleSize |-> Some(<<Entry("nEquals", "n=[0-9]+"), Entry("total", "n=[1-9][0-9]*")>>),
   confidenceInterval |-> Some(<<Entry("ci95", "ci")>>),
   tests |-> Some(<<Entry("tTest", "t-?test"), Entry("anova", "anova")>>),
   corrections |-> Some(<<Entry("bonferroni", "bonferroni")>>),
   studyDesign |-> Some(<<Entry("blinding", "blinded")>>)]

\* one malformed entry in every category the calculator and the linter scan
MalformedPatterns ==
  [GoodPatterns EXCEPT
     !.pValue = Some(<<Entry("reported", "p[<=][.][0-9]+"), Entry("zero", BadSource)>>),
     !.effectSizes = Some(<<Entry("cohensD", BadSource)>>),
     !.sampleSize = Some(<<Entry("nEquals", BadSource), Entry("total", "n=[1-9][0-9]*")>>),
     !.tests = Some(<<Entry("tTest", BadSource), Entry("anova", "anova")>>)]

\* entries that match the empty text, one of them the empty string
EmptyMatchingPatterns ==
  [GoodPatterns EXCEPT
     !.pValue = Some(<<Entry("reported", EmptyTextSource), Entry("zero", "p=[.]0+")>>),
     !.corrections = Some(<<Entry("bonferroni", "")>>)]

\* the sample-size entries in another order, after one whose matches hold no number
\* and an analysis-of-variance test registered first under a name that has no
\* requirement table
ReorderedPatterns ==
  [GoodPatterns EXCEPT
     !.sampleSize = Some(<<Entry("label", "sample"), Entry("total", "n=[1-9][0-9]*"),
                           Entry("nEquals", "n=[0-9]+")>>),
     !.tests = Some(<<Entry("mixedModel", "anova"), Entry("anova", "anova"),
                      Entry("tTest", "t-?test")>>)]

NoCategories ==
  [GoodPatterns EXCEPT !.effectSizes = None, !.sampleSize = None, !.tests = None,
                       !.confidenceInterval = None]

Condition ==
  [sections |-> None, matchPattern |-> None, matchPatterns |-> None,
   hasAnyPattern |-> None, missingAllPatterns |-> None, type |-> None,
   pattern |-> None, threshold |-> None]

Rule(id, severity, condition) ==
  [id |-> id, name |-> <<"name of", id>>, description |-> <<"description of", id>>,
   severity |-> severity, condition |-> condition, suggestion |-> <<"suggestion of", id>>]

RulePZero == Rule("p-zero", "must-fix", [Condition EXCEPT !.matchPattern = Some("pValue.zero")])
RuleTests ==
  Rule("test-named", "consider",
       [Condition EXCEPT !.matchPatterns = Some(<<"tests.tTest", "anova">>),
                         !.sections = Some(<<"results">>)])
RuleMultiple ==
  Rule("multiple-comparisons", "should-fix",
       [Condition EXCEPT !.type = Some("count-check"), !.pattern = Some("pValue.reported"),
                         !.threshold = Some(2),
                         !.missingAllPatterns = Some(<<"corrections.bonferroni">>)])
RuleSample ==
  Rule("small-sample", "should-fix", [Condition EXCEPT !.type = Some("sample-size-check")])
RuleEffect ==
  Rule("missing-effect-size", "should-fix",
       [Condition EXCEPT !.hasAnyPattern = Some(<<"tests.tTest", "tests.anova">>),
                         !.missingAllPatterns = Some(<<"effectSizes.cohensD",
                                                       "corrections.missing">>)])
RuleMalformed == Rule("malformed", "consider", [Condition EXCEPT !.matchPattern = Some(BadSource)])
RuleEmptyText ==
  Rule("empty-text", "consider", [Condition EXCEPT !.matchPattern = Some(EmptyTextSource)])
RuleAnyCount ==
  Rule("any-count", "consider",
       [Condition EXCEPT !.type = Some("count-check"), !.pattern = Some("pValue.zero"),
                         !.threshold = Some(-1),
                         !.missingAllPatterns = Some(<<"corrections.bonferroni">>)])

\* a count-check whose threshold is 0
RuleZeroThreshold ==
  Rule("zero-threshold", "consider",
       [Condition EXCEPT !.type = Some("count-check"), !.pattern = Some("pValue.zero"),
                         !.threshold = Some(0)])
\* a second rule under the id of RulePZero
RulePZeroAgain ==
  Rule("p-zero", "consider", [Condition EXCEPT !.matchPattern = Some("pValue.zero")])

Item(id, patternRef, patternRefs, severity) ==
  [id |-> id, label |-> <<"label of", id>>, patternRef |-> patternRef,
   patternRefs |-> patternRefs, severity |-> severity]

GoodChecklist ==
  [experimental |-> <<Item("blinding", Some("studyDesign.blinding"), None, "should-fix"),
                      Item("power", None, Some(<<"sampleSize.nEquals">>), "consider")>>,
   observational |-> <<Item("sampling", Some("sampleSize.total"), None, "consider")>>]

\* items that have both a patternRef and a patternRefs list, one of them empty
MixedChecklist ==
  [experimental |->
     <<Item("allocation", Some("rct"), Some(<<"sampleSize.nEquals", "tests.anova">>),
            "consider"),
       Item("registration", Some("rct"), Some(<<>>), "consider"),
       Item("blinding", Some("studyDesign.blinding"), Some(<<"rct">>), "should-fix")>>,
   observational |-> <<>>]

Threshold(small, medium, large) == [small |-> small, medium |-> medium, large |-> large]

GoodThresholds ==
  ("cohensD" :> Threshold(Rat(1, 4), Rat(1, 2), Rat(3, 4)))
  @@ ("oddsRatio" :> Threshold(Rat(7, 4), Rat(7, 2), Rat(7, 1)))
  @@ ("custom" :> Threshold(Rat(1, 1), Rat(1, 1), Rat(3, 1)))

\* thresholds that are not ascending
DescendingThresholds ==
  ("cohensD" :> Threshold(Rat(1, 2), Rat(1, 4), Rat(3, 4)))
  @@ ("oddsRatio" :> Threshold(Rat(5, 2), Rat(3, 2), Rat(4, 1)))

Formula(small, medium, large) ==
  [minimumRecommended |->
     [small_effect |-> small, medium_effect |-> medium, large_effect |-> large]]

GoodFormulas ==
  ("twoGroupComparison" :> Formula(393, 64, 26))
  @@ ("oneWayAnova" :> Formula(400, 150, 100))
  @@ ("kruskalWallis" :> Formula(60, 60, 60))

GoodDetection ==
  [experimental |-> <<"rct", "blinded">>, observational |-> <<"cohort">>,
   qualitative |-> <<"interview">>]

\* a marker shared by two study types
SharedDetection ==
  [experimental |-> <<"rct">>, observational |-> <<"cohort">>,
   qualitative |-> <<"interview", "cohort">>]

GoodStats ==
  [patterns |-> GoodPatterns,
   studyTypeDetection |-> Some(GoodDetection),
   effectSizeThresholds |-> Some(GoodThresholds),
   sampleSizeFormulas |-> Some(GoodFormulas),
   studyDesignChecklist |-> Some(GoodChecklist),
   validationRules |-> Some(<<RulePZero, RuleTests, RuleMultiple, RuleSample, RuleEffect>>)]

\* externalCheckers; academic is <<enabled, enabledRules, disabledRules>>, or
\* <<>> when the academicLinter block is missing
Linter(enabled, enabledRules, disabledRules, academic) ==
  Some([statisticsLinter |->
          Some([enabled |-> enabled, enabledRules |-> enabledRules,
                disabledRules |-> disabledRules]),
        academicLinter |->
          IF academic = <<>> THEN None
          ELSE Some([enabled |-> academic[1], enabledRules |-> academic[2],
                     disabledRules |-> academic[3]])])

ReferenceValidation(checkOrphanReferences, checkMissingReferences, requireAccessDates, accessDateKeywords) ==
  [checkOrphanReferences |-> checkOrphanReferences,
   checkMissingReferences |-> checkMissingReferences,
   requireAccessDates |-> requireAccessDates,
   accessDateKeywords |-> accessDateKeywords]

PatternSeverity == [orphanReferences |-> "consider", missingReferences |-> "must-fix"]

\* every reference check is on unless a configuration says otherwise
Config(externalCheckers, statisticsConfig) ==
  [externalCheckers |-> externalCheckers, statisticsConfig |-> statisticsConfig,
   referenceValidation |-> ReferenceValidation(TRUE, TRUE, TRUE, <<wAccessed>>),
   patternSeverity |-> PatternSeverity]

CfgGood == Config(Linter(TRUE, None, None, <<TRUE, None, None>>), Some(GoodStats))
CfgLists ==
  With(ReferenceValidation(FALSE, TRUE, TRUE, <<>>), LAMBDA refs :
  [Config(Linter(TRUE, Some(<<"p-zero", "small-sample", "missing-effect-size">>),
                Some(<<"small-sample">>),
                <<TRUE, Some(<<"hedge-clustering", "weasel-words", "nominalization">>),
                  Some(<<"nominalization">>)>>),
         Some([GoodStats EXCEPT !.patterns = ReorderedPatterns,
                                !.studyTypeDetection = Some(SharedDetection),
                                !.effectSizeThresholds = Some(DescendingThresholds)]))
     EXCEPT !.referenceValidation = refs])
CfgDisabled == Config(Linter(FALSE, None, None, <<FALSE, None, None>>), Some(GoodStats))
CfgNoLinter ==
  Config(Some([statisticsLinter |-> None, academicLinter |-> None]), Some(GoodStats))
CfgNoCheckers == Config(None, Some(GoodStats))
CfgMalformed ==
  With(ReferenceValidation(TRUE, FALSE, FALSE, <<wAccessed>>), LAMBDA refs :
  [Config(Linter(TRUE, None, None, <<TRUE, None, Some(<<"weasel-words">>)>>),
         Some([GoodStats EXCEPT
                 !.patterns = MalformedPatterns,
                 !.studyTypeDetection =
                    Some([GoodDetection EXCEPT !.experimental = <<BadSource, "rct">>]),
                 !.validationRules =
                    Some(<<RuleMalformed, RulePZero, RuleEffect, RuleTests>>)]))
     EXCEPT !.referenceValidation = refs])
CfgEmptyMatching ==
  Config(Linter(TRUE, None, None, <<TRUE, None, Some(<<"weasel-words">>)>>),
         Some([GoodStats EXCEPT
                 !.patterns = EmptyMatchingPatterns,
                 !.studyTypeDetection =
                    Some([GoodDetection EXCEPT !.qualitative = <<EmptyTextSource>>]),
                 !.studyDesignChecklist = Some(MixedChecklist),
                 !.validationRules =
                    Some(<<RuleEmptyText, RuleAnyCount, RuleZeroThreshold, RulePZero,
                           RuleTests, RulePZeroAgain>>)]))
CfgNoStats == Config(Linter(TRUE, None, None, <<>>), None)
CfgSparse ==
  Config(Linter(TRUE, Some(<<>>), Some(<<>>), <<TRUE, Some(<<>>), Some(<<>>)>>),
         Some([patterns |-> NoCategories, studyTypeDetection |-> None,
               effectSizeThresholds |-> None, sampleSizeFormulas |-> None,
               studyDesignChecklist |-> None, validationRules |-> None]))

Configs ==
  {CfgGood, CfgLists, CfgDisabled, CfgNoLinter, CfgNoCheckers, CfgMalformed,
   CfgEmptyMatching, CfgNoStats, CfgSparse}

----------------------------------------------------------------------------
(* Inputs of the calls *)

Texts(words) == SeqsUpTo(words, MaxLen)

LintWords == {wN50, wAnova, wPZero, wRct, wD}
SampleWords == {wN50, wN050, wN0, wN200, wNBig, wSample}
StudyWords == {wRct, wRCT, wBlind, wCohort, wInterview, wAnova, wTTest}

Sections == {"methods", "results"}

Options(enabledRules, disabledRules, includeChecklist, includeSampleAdequacy) ==
  Some([enabledRules |-> enabledRules, disabledRules |-> disabledRules,
        includeChecklist |-> includeChecklist,
        includeSampleAdequacy |-> includeSampleAdequacy])

OptionChoices ==
  {None,
   Options(Some(<<>>), Some(<<"p-zero">>), Some(FALSE), Some(FALSE)),
   Options(Some(<<"p-zero", "test-named">>), None, Some(TRUE), None)}

\* the floating-point numbers +-m * 2^u / 2^(MaxShift-1), and 0
EffectValues ==
  {Rat(sign * m * Pow2(u), Pow2(MaxShift - 1)) :
     sign \in {-1, 1}, m \in Pow2(MantissaBits - 1)..(Pow2(MantissaBits) - 1),
     u \in 0..MaxShift}
  \cup {Rat(0, 1)}
EffectTypes == {"cohensD", "oddsRatio", "custom", "glassDelta"}

SampleNs == {0, 25, 26, 50, 63, 64, 99, 100, 149, 150, 200, 392, 393, 400}
TestTypes == {"t-test", "tTest", "anova", "kruskalWallis", "pairedTTest", "unknown-test"}

----------------------------------------------------------------------------
(* The review state of the user interface and its issue updaters *)

sectionOrder ==
  <<"title", "abstract", "introduction", "related-work", "methodology", "results",
    "discussion", "threats-to-validity", "conclusion", "references", "formatting">>

\* the checklist of a section, one unchecked item standing for its items
createInitialChecklist(sectionType) ==
  <<[id |-> <<sectionType, "1">>, label |-> <<"label of", sectionType, "1">>,
     checked |-> FALSE, aiSuggested |-> None]>>

createInitialSections ==
  [k \in 1..Len(sectionOrder) |->
     [id |-> sectionOrder[k], name |-> <<"label of", sectionOrder[k]>>, content |-> "",
      checklist |-> createInitialChecklist(sectionOrder[k]), score |-> 0, issues |-> <<>>]]

initialState ==
  [paperTitle |-> "", paperContent |-> "", sections |-> createInitialSections,
   overallScore |-> 0, status |-> "idle"]

\* { ...i, ...updates }: the fields of updates replace or extend those of i
Spread(i, updates) ==
  [f \in DOMAIN i \cup DOMAIN updates |-> IF f \in DOMAIN updates THEN updates[f] ELSE i[f]]

\* prev.sections.map(s => s.id === sectionId ? change(s) : s)
MapSection(prev, sectionId, change(_)) ==
  [prev EXCEPT !.sections =
     [k \in 1..Len(prev.sections) |->
        IF prev.sections[k].id = sectionId THEN change(prev.sections[k])
        ELSE prev.sections[k]]]

addIssue(prev, sectionId, issue) ==
  MapSection(prev, sectionId, LAMBDA s : [s EXCEPT !.issues = Append(s.issues, issue)])

removeIssue(prev, sectionId, issueId) ==
  MapSection(prev, sectionId,
             LAMBDA s : [s EXCEPT !.issues = SelectSeq(s.issues, LAMBDA i : i.id # issueId)])

updateIssueMut(prev, sectionId, issueId, updates) ==
  [prev EXCEPT !.sections =
     [k \in 1..Len(prev.sections) |->
        [prev.sections[k] EXCEPT !.issues =
           [n \in 1..Len(prev.sections[k].issues) |->
              IF prev.sections[k].issues[n].id = issueId
              THEN Spread(prev.sections[k].issues[n], updates)
              ELSE prev.sections[k].issues[n]]]]]

updateIssue(prev, sectionId, issueId, updates) ==
  MapSection(prev, sectionId,
             LAMBDA s : [s EXCEPT !.issues =
                           [n \in 1..Len(s.issues) |->
                              IF s.issues[n].id = issueId THEN Spread(s.issues[n], updates)
                              ELSE s.issues[n]]])

----------------------------------------------------------------------------
(* The state machine: one action per exported function, called by a client *)

Idle == [op |-> "none"]

Init ==
  /\ config \in Configs
  /\ patternCache = <<>>
  /\ state = initialState
  /\ pc = "idle"
  /\ call = Idle
  /\ result = Idle

Returns(c, r) ==
  /\ pc = "idle"
  /\ pc' = "done"
  /\ call' = c
  /\ result' = r
  /\ UNCHANGED <<config, state>>

LintStatisticsCall ==
  \E text \in Texts(LintWords), sectionId \in Sections, options \in OptionChoices :
    LET r == LintStatistics(config, patternCache, text, sectionId, options)
    IN /\ Returns([op |-> "lintStatistics", text |-> text, sectionId |-> sectionId,
                   options |-> options, cacheBefore |-> patternCache],
                  Ok(r.result))
       /\ patternCache' = r.cache

\* processRule on one of the configured rules, as the loop of lintStatistics
\* calls it
ProcessRuleCall ==
  \E text \in Texts({wPZero, wTTest, wAnova}), sectionId \in Sections :
    \E i \in 1..Len(IF IsSome(config.statisticsConfig)
                       /\ IsSome(Val(config.statisticsConfig).validationRules)
                    THEN Val(Val(config.statisticsConfig).validationRules) ELSE <<>>) :
      LET rule == Val(Val(config.statisticsConfig).validationRules)[i]
          r == ProcessRule(config, patternCache, rule, text, sectionId)
      IN /\ Returns([op |-> "processRule", rule |-> rule, text |-> text,
                     sectionId |-> sectionId, cacheBefore |-> patternCache],
                    Ok(r.issues))
         /\ patternCache' = r.cache

\* the keys the evaluators look up: registry paths, raw sources, a malformed one
PatternKeys == {"pValue.zero", "corrections.bonferroni", "tests.tTest", "anova", BadSource}

\* getCompiledPattern on its own, as the evaluators of a condition call it
GetCompiledPatternCall ==
  \E patternPath \in PatternKeys :
    LET g == GetCompiledPattern(config, patternCache, patternPath)
    IN /\ Returns([op |-> "getCompiledPattern", patternPath |-> patternPath,
                   cacheBefore |-> patternCache],
                  Ok(g.regex))
       /\ patternCache' = g.cache

ExtractSampleSizesCall ==
  \E text \in Texts(SampleWords) :
    /\ Returns([op |-> "extractSampleSizes", text |-> text],
               Ok(ExtractSampleSizes(config, text)))
    /\ UNCHANGED patternCache

GetPrimarySampleSizeCall ==
  \E text \in Texts(SampleWords) :
    /\ Returns([op |-> "getPrimarySampleSize", text |-> text],
               Ok(GetPrimarySampleSize(config, text)))
    /\ UNCHANGED patternCache

ExtractEffectSizesCall ==
  \E text \in Texts(LintWords) :
    /\ Returns([op |-> "extractEffectSizes", text |-> text],
               ExtractEffectSizes(config, text))
    /\ UNCHANGED patternCache

DetectStatisticalTestsCall ==
  \E text \in Texts(LintWords) :
    /\ Returns([op |-> "detectStatisticalTests", text |-> text],
               Ok(DetectStatisticalTests(config, text)))
    /\ UNCHANGED patternCache

DetectStudyTypeCall ==
  \E text \in Texts(StudyWords) :
    /\ Returns([op |-> "detectStudyType", text |-> text],
               Ok(DetectStudyType(config, text)))
    /\ UNCHANGED patternCache

\* sentences over a few words the academic rules look for, and the options a
\* caller passes
LintAcademicTextCall ==
  \E text \in Texts({"many", "very", "was", "tested", "utilization", "may", "might"}),
     sectionId \in Sections,
     options \in {None,
                  Some([enabledRules |-> Some(<<"passive-voice-excessive", "weasel-words">>),
                        disabledRules |-> None]),
                  Some([enabledRules |-> None,
                        disabledRules |-> Some(<<"weasel-words">>)])} :
    /\ Returns([op |-> "lintAcademicText", text |-> text, sectionId |-> sectionId,
                options |-> options],
               Ok(LintAcademicText(config, text, sectionId, options)))
    /\ UNCHANGED patternCache

CalculateStatisticsCall ==
  \E text \in Texts(LintWords) :
    /\ Returns([op |-> "calculateStatistics", text |-> text],
               CalculateStatistics(config, text))
    /\ UNCHANGED patternCache

InterpretEffectSizeCall ==
  \E value \in EffectValues, type \in EffectTypes :
    /\ Returns([op |-> "interpretEffectSize", value |-> value, type |-> type],
               Ok(InterpretEffectSize(config, value, type)))
    /\ UNCHANGED patternCache

AssessSampleAdequacyCall ==
  \E extractedN \in SampleNs, testType \in TestTypes :
    /\ Returns([op |-> "assessSampleAdequacy", extractedN |-> extractedN,
                testType |-> testType],
               Ok(AssessSampleAdequacy(config, extractedN, testType)))
    /\ UNCHANGED patternCache

\* the caller takes the result; the next call may start
Return ==
  /\ pc = "done"
  /\ pc' = "idle"
  /\ call' = Idle
  /\ result' = Idle
  /\ UNCHANGED <<config, patternCache, state>>

\* the linter: the only function that reads and writes the pattern cache
Next ==
  \/ LintStatisticsCall
  \/ Return

Spec == Init /\ [][Next]_vars

\* the rule evaluator on its own
NextRule ==
  \/ ProcessRuleCall
  \/ GetCompiledPatternCall
  \/ Return

SpecRule == Init /\ [][NextRule]_vars

\* the lines of a references section and of the body of a paper: entries,
\* a citation inside a line, a link with and without its access date
RefLines ==
  {<<cite1>>, <<cite01>>, <<cite2>>, <<wSee, cite1>>, <<wUrl>>, <<wUrl, wAccessed>>}
BodyLines == {<<cite1, cite01>>, <<cite2>>, <<wSee>>}

\* the references text, and a full text that is a body followed or not by
\* the references text
AnalyzeReferencesCall ==
  \E text \in SeqsUpTo(RefLines, MaxLines), body \in SeqsUpTo(BodyLines, 1),
     withReferences \in BOOLEAN :
    LET fullPaperText == body \o (IF withReferences THEN text ELSE <<>>)
    IN /\ Returns([op |-> "analyzeReferences", text |-> text,
                   fullPaperText |-> fullPaperText, sectionId |-> "references"],
                  Ok(AnalyzeReferences(config, text, fullPaperText, "references")))
       /\ UNCHANGED patternCache

\* the calculator and the academic linter, whose functions keep no state
\* between calls
NextCalc ==
  \/ LintAcademicTextCall
  \/ ExtractSampleSizesCall
  \/ GetPrimarySampleSizeCall
  \/ ExtractEffectSizesCall
  \/ DetectStatisticalTestsCall
  \/ DetectStudyTypeCall
  \/ CalculateStatisticsCall
  \/ InterpretEffectSizeCall
  \/ AssessSampleAdequacyCall
  \/ AnalyzeReferencesCall
  \/ Return

SpecCalc == Init /\ [][NextCalc]_vars

\* the section ids, issues and updates a client passes to the updaters; one
\* section id names no section, one update renames the issue
ReviewSectionIds == {"methodology", "results", "appendix"}
IssueIds == {"is-0", "is-1"}
NewIssues ==
  {[id |-> id, severity |-> "should-fix", description |-> <<"description of", id>>] :
     id \in IssueIds}
IssueUpdates ==
  {[severity |-> "consider"], [id |-> "is-1", location |-> "line 3"]}

CountIssues(st) ==
  Cardinality({<<k, n>> \in (1..Len(st.sections)) \X (1..MaxIssues) :
                 n <= Len(st.sections[k].issues)})

\* setState(prev => update(prev)) of an updater, recorded with the state before
SetState(c, next) ==
  /\ pc = "idle"
  /\ pc' = "done"
  /\ call' = c
  /\ result' = Idle
  /\ state' = next
  /\ UNCHANGED <<config, patternCache>>

AddIssueCall ==
  \E sectionId \in ReviewSectionIds, issue \in NewIssues :
    /\ CountIssues(state) < MaxIssues
    /\ SetState([op |-> "addIssue", sectionId |-> sectionId, issue |-> issue,
                 prev |-> state],
                addIssue(state, sectionId, issue))

RemoveIssueCall ==
  \E sectionId \in ReviewSectionIds, issueId \in IssueIds :
    SetState([op |-> "removeIssue", sectionId |-> sectionId, issueId |-> issueId,
              prev |-> state],
             removeIssue(state, sectionId, issueId))

UpdateIssueCall ==
  \E sectionId \in ReviewSectionIds, issueId \in IssueIds, updates \in IssueUpdates :
    SetState([op |-> "updateIssue", sectionId |-> sectionId, issueId |-> issueId,
              updates |-> updates, prev |-> state],
             updateIssue(state, sectionId, issueId, updates))

\* the review hook: its updaters run one after the other
NextReview ==
  \/ AddIssueCall
  \/ RemoveIssueCall
  \/ UpdateIssueCall
  \/ Return

SpecReview == Init /\ [][NextReview]_vars

Done(op) == pc = "done" /\ call.op = op

----------------------------------------------------------------------------
(* Properties of lintStatistics *)

Range(s) == {s[i] : i \in 1..Len(s)}

AllZeroStats(stats) ==
  /\ stats.pValues = 0
  /\ stats.effectSizes = 0
  /\ stats.confidenceIntervals = 0
  /\ stats.sampleSizes = 0
  /\ stats.statisticalTests = 0

\* externalCheckers.statisticsLinter missing, or enabled = false
LinterDisabled ==
  \/ ~IsSome(config.externalCheckers)
  \/ ~IsSome(Val(config.externalCheckers).statisticsLinter)
  \/ ~Val(Val(config.externalCheckers).statisticsLinter).enabled

\* C1: with the linter disabled in the configuration, lintStatistics returns
\* a result with no issues, no rule results, five zero counts and the study
\* type unknown with confidence 0, whatever the text, section and options;
\* no rule is evaluated and the pattern cache is left as it was.
C1_DisabledShortCircuit ==
  (Done("lintStatistics") /\ LinterDisabled) =>
    /\ ~result.throws
    /\ result.value.issues = <<>>
    /\ result.value.ruleResults = <<>>
    /\ AllZeroStats(result.value.stats)
    /\ result.value.studyType = [type |-> "unknown", confidence |-> Rat(0, 1)]
    /\ patternCache = call.cacheBefore

\* a disabled linter was called on a text that holds words
C1_Witness ==
  /\ Done("lintStatistics")
  /\ LinterDisabled
  /\ IsSome(config.externalCheckers)
  /\ Len(call.text) > 0
  /\ call.sectionId = "methods"

\* every regex source lintStatistics may compile on an empty text: the
\* registry entries, the paths of the rule conditions (a path that does not
\* resolve is compiled as it stands) and the study-type markers
RegistrySources(stats) ==
  UNION {IF IsSome(stats.patterns[c]) THEN {e.source : e \in Range(Val(stats.patterns[c]))}
         ELSE {} : c \in DOMAIN stats.patterns}

OptPaths(o) == IF IsSome(o) THEN Range(Val(o)) ELSE {}

ConditionPaths(c) ==
  (IF IsSome(c.matchPattern) THEN {Val(c.matchPattern)} ELSE {})
  \cup (IF IsSome(c.pattern) THEN {Val(c.pattern)} ELSE {})
  \cup OptPaths(c.matchPatterns) \cup OptPaths(c.hasAnyPattern)
  \cup OptPaths(c.missingAllPatterns)

RulesOf(stats) ==
  IF IsSome(stats.validationRules) THEN Range(Val(stats.validationRules)) ELSE {}

MarkerSources(stats) ==
  IF IsSome(stats.studyTypeDetection)
  THEN UNION {Range(Val(stats.studyTypeDetection)[t]) : t \in Range(StudyTypes)}
  ELSE {}

MatchesEmptyText(source) == AllMatches(source, <<>>) # <<>>

\* no pattern of the configuration matches the empty string, and every
\* count-check threshold is positive
EmptyTextSafe(cfg) ==
  IsSome(cfg.statisticsConfig) =>
    LET stats == Val(cfg.statisticsConfig)
    IN /\ \A s \in RegistrySources(stats) \cup MarkerSources(stats) : ~MatchesEmptyText(s)
       /\ \A r \in RulesOf(stats) :
            /\ \A path \in ConditionPaths(r.condition) : ~MatchesEmptyText(path)
            /\ IsSome(r.condition.threshold) => Val(r.condition.threshold) > 0

\* C2 as stated: on the empty text lintStatistics returns no issue and five
\* zero counts, for every section, options and rule configuration.
C2_EmptyTextAnyConfiguration ==
  (Done("lintStatistics") /\ call.text = <<>>) =>
    /\ ~result.throws
    /\ result.value.issues = <<>>
    /\ AllZeroStats(result.value.stats)

\* C2: on the empty text lintStatistics returns no issue and five zero counts,
\* for every section and options, provided no configured pattern matches the
\* empty string and every count-check threshold is positive.
C2_EmptyText ==
  (Done("lintStatistics") /\ call.text = <<>> /\ EmptyTextSafe(config)) =>
    /\ ~result.throws
    /\ result.value.issues = <<>>
    /\ AllZeroStats(result.value.stats)

\* the rules of such a configuration were evaluated on the empty text
C2_Witness ==
  /\ Done("lintStatistics")
  /\ call.text = <<>>
  /\ EmptyTextSafe(config)
  /\ Len(result.value.ruleResults) > 1

\* C3 as stated: no call throws, whatever the configuration.
C3_NeverThrows == pc = "done" => ~result.throws

\* C4: the result of lintStatistics is the one a call with an empty pattern
\* cache returns for the same configuration, text, section and options: the
\* cache contents and the lastIndex of the cached expressions change nothing.
C4_CacheIndependent ==
  Done("lintStatistics") =>
    /\ ~result.throws
    /\ result.value
         = LintStatistics(config, <<>>, call.text, call.sectionId, call.options).result

\* a call that found compiled patterns in the cache and reported issues
C4_Witness ==
  /\ Done("lintStatistics")
  /\ "pValue.zero" \in DOMAIN call.cacheBefore
  /\ \E i \in 1..Len(result.value.issues) : result.value.issues[i].id[2] = "p-zero"
  /\ Len(result.value.issues) > 1

----------------------------------------------------------------------------
(* Properties of the sample-size extraction *)

SamplePatternsOf(cfg) ==
  IF IsSome(cfg.statisticsConfig) /\ IsSome(Val(cfg.statisticsConfig).patterns.sampleSize)
  THEN Val(Val(cfg.statisticsConfig).patterns.sampleSize)
  ELSE <<>>

\* the number written in a matched word
HoldsNumber(w) == \E i \in 1..Len(w) : w[i] \in Digits
NumberIn(w) == ParseInt(Val(FirstDigitRun(w)))
InRange(v) == 0 < v /\ v < 100000

\* <<p, i>>: pattern p matches word i of the text and the number is in range
Produced(cfg, text) ==
  {pi \in (1..Len(SamplePatternsOf(cfg))) \X (1..Len(text)) :
     /\ ~CompilePattern(SamplePatternsOf(cfg)[pi[1]].source).throws
     /\ text[pi[2]] \in RegexLang(SamplePatternsOf(cfg)[pi[1]].source)
     /\ HoldsNumber(text[pi[2]])
     /\ InRange(NumberIn(text[pi[2]]))}

\* production order: pattern by pattern, and within a pattern in text order
Before(a, b) == a[1] < b[1] \/ (a[1] = b[1] /\ a[2] < b[2])

\* C5: extractSampleSizes returns the distinct in-range values the sample-size
\* patterns match, each once: every value is in (0, 100000), no value occurs
\* twice, every in-range match is represented, out-of-range matches are
\* dropped, and the entry of a value is the first one produced.
C5_DistinctInRangeFirstWins ==
  Done("extractSampleSizes") =>
    /\ ~result.throws
    /\ LET out == result.value
           text == call.text
           made == Produced(config, text)
       IN /\ \A k \in 1..Len(out) : InRange(out[k].value)
          /\ \A j, k \in 1..Len(out) : j # k => out[j].value # out[k].value
          /\ \A pi \in made : \E k \in 1..Len(out) : out[k].value = NumberIn(text[pi[2]])
          /\ \A k \in 1..Len(out) :
               \E pi \in made :
                 /\ out[k].value = NumberIn(text[pi[2]])
                 /\ out[k].context = text[pi[2]]
                 /\ out[k].pattern = SamplePatternsOf(config)[pi[1]].name
                 /\ \A other \in made :
                      NumberIn(text[other[2]]) = out[k].value => ~Before(other, pi)

\* two spellings of one value and the first one kept
C5_Witness ==
  /\ Done("extractSampleSizes")
  /\ call.text = <<wN050, wN50>>
  /\ Len(result.value) = 1
  /\ result.value[1].context = wN050

\* C6: getPrimarySampleSize returns the maximum of the values extractSampleSizes
\* returns for the text, and null exactly when that list is empty; it never
\* returns 0 and never throws.
C6_PrimaryIsMaximum ==
  Done("getPrimarySampleSize") =>
    /\ ~result.throws
    /\ LET sizes == ExtractSampleSizes(config, call.text)
           values == {sizes[i].value : i \in 1..Len(sizes)}
       IN /\ IsSome(result.value) <=> Len(sizes) > 0
          /\ IsSome(result.value) =>
               /\ Val(result.value) \in values
               /\ \A v \in values : v <= Val(result.value)
               /\ Val(result.value) # 0

\* the maximum is not the first value extracted
C6_Witness ==
  /\ Done("getPrimarySampleSize")
  /\ Len(ExtractSampleSizes(config, call.text)) = 2
  /\ IsSome(result.value)
  /\ Val(result.value) > ExtractSampleSizes(config, call.text)[1].value

----------------------------------------------------------------------------
(* Properties of the effect-size interpretation *)

HasThresholds(cfg, type) ==
  /\ IsSome(cfg.statisticsConfig)
  /\ IsSome(Val(cfg.statisticsConfig).effectSizeThresholds)
  /\ type \in DOMAIN Val(Val(cfg.statisticsConfig).effectSizeThresholds)

ThresholdsOf(cfg, type) == Val(Val(cfg.statisticsConfig).effectSizeThresholds)[type]

RatLe(a, b) == ~RatLt(b, a)
Ascending(t) == RatLe(t.small, t.medium) /\ RatLe(t.medium, t.large)

Rank(magnitude) ==
  CASE magnitude = "negligible" -> 0
    [] magnitude = "small" -> 1
    [] magnitude = "medium" -> 2
    [] magnitude = "large" -> 3

SameNumber(a, b) == ~RatLt(a, b) /\ ~RatLt(b, a)

\* C8 as stated: an odds ratio v > 0 and the number 1/v get the same
\* magnitude.
C8_OddsRatioSymmetricAlways ==
  (/\ Done("interpretEffectSize")
   /\ call.type = "oddsRatio"
   /\ HasThresholds(config, "oddsRatio")
   /\ call.value.n > 0) =>
    /\ ~result.throws
    /\ result.value.magnitude
         = InterpretEffectSize(config, Reciprocal(call.value), "oddsRatio").magnitude

\* C8: an odds ratio v > 0 is classified by the larger of v and the computed
\* 1/v against the thresholds; v and 1/v get the same magnitude when v <= 1,
\* and when v > 1 provided 1/(1/v) is computed as v again.
C8_OddsRatioSymmetric ==
  (/\ Done("interpretEffectSize")
   /\ call.type = "oddsRatio"
   /\ HasThresholds(config, "oddsRatio")
   /\ call.value.n > 0) =>
    /\ ~result.throws
    /\ LET t == ThresholdsOf(config, "oddsRatio")
           inverse == Reciprocal(call.value)
           distance == IF RatLt(call.value, inverse) THEN inverse ELSE call.value
       IN /\ result.value.magnitude =
               (IF RatLt(distance, t.small) THEN "negligible"
                ELSE IF RatLt(distance, t.medium) THEN "small"
                ELSE IF RatLt(distance, t.large) THEN "medium"
                ELSE "large")
          /\ (RatLe(call.value, Rat(1, 1)) \/ SameNumber(Reciprocal(inverse), call.value)) =>
               result.value.magnitude
                 = InterpretEffectSize(config, inverse, "oddsRatio").magnitude

\* an odds ratio below 1 that is as large an effect as its reciprocal
C8_Witness ==
  /\ Done("interpretEffectSize")
  /\ call.type = "oddsRatio"
  /\ HasThresholds(config, "oddsRatio")
  /\ call.value.n > 0
  /\ call.value.n < call.value.d
  /\ result.value.magnitude = "large"

----------------------------------------------------------------------------
(* Properties of the sample-adequacy assessment *)

HasRequirementTable(cfg, testType) ==
  /\ IsSome(cfg.statisticsConfig)
  /\ IsSome(Val(cfg.statisticsConfig).sampleSizeFormulas)
  /\ TestToFormula(testType) \in DOMAIN Val(Val(cfg.statisticsConfig).sampleSizeFormulas)

RequirementTable(cfg, testType) ==
  Val(Val(cfg.statisticsConfig).sampleSizeFormulas)[TestToFormula(testType)].minimumRecommended

\* C9: with a requirement table for the test type, adequate is false exactly
\* when n < large, the recommendation then says the sample may only detect
\* large effects, and required is the table.
C9_AdequateFromLarge ==
  (Done("assessSampleAdequacy") /\ HasRequirementTable(config, call.testType)) =>
    /\ ~result.throws
    /\ LET table == RequirementTable(config, call.testType)
           n == call.extractedN
       IN /\ result.value.adequate <=> n >= table.large_effect
          /\ n < table.large_effect =>
               result.value.recommendation = "may only detect large effects"
          /\ n >= table.large_effect =>
               result.value.recommendation # "may only detect large effects"
          /\ result.value.required =
               [small |-> table.small_effect, medium |-> table.medium_effect,
                large |-> table.large_effect]

\* a sample one below the large-effect requirement
C9_Witness ==
  /\ Done("assessSampleAdequacy")
  /\ HasRequirementTable(config, call.testType)
  /\ call.extractedN + 1 = RequirementTable(config, call.testType).large_effect
  /\ ~result.value.adequate

\* C10: without a requirement table for the test type, adequate is true for
\* every n, required is {0, 0, 0} and the recommendation says the requirements
\* cannot be determined; the call does not throw.
C10_NoTableIsAdequate ==
  (Done("assessSampleAdequacy") /\ ~HasRequirementTable(config, call.testType)) =>
    /\ ~result.throws
    /\ result.value.adequate
    /\ result.value.required = [small |-> 0, medium |-> 0, large |-> 0]
    /\ result.value.recommendation = "Unable to determine sample size requirements"
    /\ result.value.extracted = call.extractedN

\* formulas are configured, the test label maps to none of them, and n is 0
C10_Witness ==
  /\ Done("assessSampleAdequacy")
  /\ IsSome(config.statisticsConfig)
  /\ IsSome(Val(config.statisticsConfig).sampleSizeFormulas)
  /\ ~HasRequirementTable(config, call.testType)
  /\ call.extractedN = 0
  /\ result.value.adequate

----------------------------------------------------------------------------
(* Properties of the study-type detection *)

HasDetection(cfg) ==
  IsSome(cfg.statisticsConfig) /\ IsSome(Val(cfg.statisticsConfig).studyTypeDetection)

MarkersOf(cfg, type) == Val(Val(cfg.statisticsConfig).studyTypeDetection)[type]

\* the marker compiles and is found somewhere in the text, in either case
MarkerMatches(p, text) ==
  /\ p # BadSource
  /\ \/ \E i \in 1..Len(text) : text[i] \in RegexLang(p)
     \/ p = EmptyTextSource /\ text = <<>>

MarkerCount(cfg, type, text) ==
  Cardinality({i \in 1..Len(MarkersOf(cfg, type)) :
                 MarkerMatches(MarkersOf(cfg, type)[i], text)})

TotalMarkerCount(cfg, text) ==
  MarkerCount(cfg, "experimental", text) + MarkerCount(cfg, "observational", text)
    + MarkerCount(cfg, "qualitative", text)

NoMarkerMatches(cfg, text) == HasDetection(cfg) => TotalMarkerCount(cfg, text) = 0

TypeIndex(type) == CHOOSE i \in 1..Len(StudyTypes) : StudyTypes[i] = type

\* C11: when some marker matches, detectStudyType returns the type with the
\* most matching markers, the earliest of experimental, observational,
\* qualitative among those that share the highest count, and matchedPatterns
\* lists the matching markers of that type.
C11_HighestCountEarliestWins ==
  (Done("detectStudyType") /\ ~NoMarkerMatches(config, call.text)) =>
    /\ ~result.throws
    /\ result.value.type \in Range(StudyTypes)
    /\ LET winner == result.value.type
       IN /\ \A t \in Range(StudyTypes) :
               /\ MarkerCount(config, t, call.text) <= MarkerCount(config, winner, call.text)
               /\ TypeIndex(t) < TypeIndex(winner) =>
                    MarkerCount(config, t, call.text) < MarkerCount(config, winner, call.text)
          /\ result.value.matchedPatterns
               = SelectSeq(MarkersOf(config, winner),
                           LAMBDA p : MarkerMatches(p, call.text))

\* two types share the highest count and the earlier one is returned
C11_Witness ==
  /\ Done("detectStudyType")
  /\ HasDetection(config)
  /\ MarkerCount(config, "observational", call.text) = 1
  /\ MarkerCount(config, "qualitative", call.text) = 1
  /\ MarkerCount(config, "experimental", call.text) = 0
  /\ result.value.type = "observational"
  /\ result.value.matchedPatterns = <<"cohort">>

\* C12: the confidence is the winning count over the total count of the
\* three types and lies in [0, 1]; the result is unknown, 0, [] exactly when
\* no marker matches; unknown never comes with a non-zero confidence.
C12_ConfidenceIsShare ==
  Done("detectStudyType") =>
    /\ ~result.throws
    /\ RatLe(Rat(0, 1), result.value.confidence)
    /\ RatLe(result.value.confidence, Rat(1, 1))
    /\ NoMarkerMatches(config, call.text) <=>
         result.value = [type |-> "unknown", confidence |-> Rat(0, 1),
                         matchedPatterns |-> <<>>]
    /\ result.value.type = "unknown" => SameNumber(result.value.confidence, Rat(0, 1))
    /\ ~NoMarkerMatches(config, call.text) =>
         SameNumber(result.value.confidence,
                    Rat(MarkerCount(config, result.value.type, call.text),
                        TotalMarkerCount(config, call.text)))

\* a winner with two of the three matches
C12_Witness ==
  /\ Done("detectStudyType")
  /\ HasDetection(config)
  /\ TotalMarkerCount(config, call.text) = 3
  /\ result.value.type = "qualitative"
  /\ SameNumber(result.value.confidence, Rat(2, 3))
----------------------------------------------------------------------------
(* Properties of the rule selection, the checklist and the issue ids *)

ValidationRulesOf(cfg) ==
  IF IsSome(cfg.statisticsConfig) /\ IsSome(Val(cfg.statisticsConfig).validationRules)
  THEN Val(Val(cfg.statisticsConfig).validationRules)
  ELSE <<>>

\* the lists in force for the call: the one of the options if given, else the
\* configured one, else the empty list
AllowList == EffectiveList(OptionOf(call.options, "enabledRules"),
                           Val(LintConfig(config)).enabledRules)
DenyList == EffectiveList(OptionOf(call.options, "disabledRules"),
                          Val(LintConfig(config)).disabledRules)

Selected(rule) ==
  /\ rule.id \notin Range(DenyList)
  /\ AllowList = <<>> \/ rule.id \in Range(AllowList)

ChecklistIssues(issues) == SelectSeq(issues, LAMBDA issue : issue.id[2] = "checklist")
RuleIssues(issues) == SelectSeq(issues, LAMBDA issue : issue.id[2] # "checklist")

\* C13: with the linter enabled, ruleResults has one entry for each rule that
\* is off the deny-list and on the allow-list (or the allow-list is empty), in
\* rule order, and every rule issue belongs to such a rule; a rule on both
\* lists has no entry and no issue.
C13_AllowAndDenyLists ==
  (Done("lintStatistics") /\ LintEnabled(config)) =>
    LET selected == SelectSeq(ValidationRulesOf(config), Selected)
        ruleResults == result.value.ruleResults
        issues == RuleIssues(result.value.issues)
    IN /\ [i \in 1..Len(ruleResults) |-> ruleResults[i].ruleId]
            = [i \in 1..Len(selected) |-> selected[i].id]
       /\ \A i \in 1..Len(issues) :
            \E rule \in Range(selected) : issues[i].id[2] = rule.id

\* a rule on both lists is left out while another rule reports an issue
C13_Witness ==
  /\ Done("lintStatistics")
  /\ LintEnabled(config)
  /\ \E rule \in Range(ValidationRulesOf(config)) :
       rule.id \in Range(DenyList) /\ rule.id \in Range(AllowList)
  /\ Len(result.value.ruleResults) = 2
  /\ Len(result.value.issues) > 0

ChecklistOf(cfg, studyType) ==
  IF IsSome(cfg.statisticsConfig) /\ IsSome(Val(cfg.statisticsConfig).studyDesignChecklist)
     /\ studyType \in DOMAIN Val(Val(cfg.statisticsConfig).studyDesignChecklist)
  THEN Val(Val(cfg.statisticsConfig).studyDesignChecklist)[studyType]
  ELSE <<>>

ChecklistDue ==
  /\ OptionOf(call.options, "includeChecklist") # Some(FALSE)
  /\ result.value.studyType.type # "unknown"
  /\ RatLt(Rat(3, 10), result.value.studyType.confidence)
  /\ call.sectionId \in {"methodology", "methods"}

\* C14: with the linter enabled the checklist is evaluated exactly when
\* includeChecklist is not false, the study type is known with a confidence
\* above 0.3 and the section is methodology or methods; it then has one entry
\* per configured item of that type and the checklist issues are one per
\* entry that did not pass, with its severity; otherwise there is no
\* checklist and no checklist issue.
C14_ChecklistWhenDue ==
  (Done("lintStatistics") /\ LintEnabled(config)) =>
    LET issues == ChecklistIssues(result.value.issues)
    IN /\ ChecklistDue <=> IsSome(result.value.studyDesignChecklist)
       /\ ~ChecklistDue => issues = <<>>
       /\ ChecklistDue =>
            LET entries == Val(result.value.studyDesignChecklist)
                items == ChecklistOf(config, result.value.studyType.type)
                failed == SelectSeq(entries, LAMBDA e : ~e.passed)
            IN /\ [i \in 1..Len(entries) |-> entries[i].checkItem]
                    = [i \in 1..Len(items) |-> items[i].id]
               /\ [i \in 1..Len(issues) |-> <<issues[i].id, issues[i].severity>>]
                    = [i \in 1..Len(failed) |->
                         << <<call.sectionId, "checklist", failed[i].checkItem>>,
                            failed[i].severity >>]

\* a checklist with one item that passed and one that did not
C14_Witness ==
  /\ Done("lintStatistics")
  /\ LintEnabled(config)
  /\ IsSome(result.value.studyDesignChecklist)
  /\ \E e \in Range(Val(result.value.studyDesignChecklist)) : e.passed
  /\ \E e \in Range(Val(result.value.studyDesignChecklist)) : ~e.passed
  /\ Len(ChecklistIssues(result.value.issues)) = 1

\* C15: the issues returned by one lintStatistics call have pairwise
\* distinct ids.
C15_DistinctIssueIds ==
  Done("lintStatistics") =>
    \A i, j \in 1..Len(result.value.issues) :
      i # j => result.value.issues[i].id # result.value.issues[j].id
----------------------------------------------------------------------------
(* Properties of the academic linter *)

AcademicConfig ==
  IF IsSome(config.externalCheckers) THEN Val(config.externalCheckers).academicLinter
  ELSE None

AcademicEnabled == IsSome(AcademicConfig) /\ Val(AcademicConfig).enabled

AcademicRuleIds == [i \in 1..Len(AcademicRules) |-> AcademicRules[i].id]

\* options.enabledRules, else the configured list, else every rule id
AcademicAllowList ==
  IF IsSome(OptionOf(call.options, "enabledRules"))
  THEN Val(OptionOf(call.options, "enabledRules"))
  ELSE IF IsSome(Val(AcademicConfig).enabledRules) THEN Val(Val(AcademicConfig).enabledRules)
  ELSE AcademicRuleIds

AcademicDenyList ==
  IF IsSome(OptionOf(call.options, "disabledRules"))
  THEN Val(OptionOf(call.options, "disabledRules"))
  ELSE IF IsSome(Val(AcademicConfig).disabledRules) THEN Val(Val(AcademicConfig).disabledRules)
  ELSE <<>>

RECURSIVE SumIssueCounts(_)
SumIssueCounts(ruleResults) ==
  IF ruleResults = <<>> THEN 0
  ELSE Head(ruleResults).issueCount + SumIssueCounts(Tail(ruleResults))

\* C16: lintAcademicText has one ruleResults entry for each built-in rule
\* whose id is on the enabled list in force and off the disabled list, in
\* declaration order; the issue counts add up to the number of issues; with
\* the academic linter disabled there are no issues and no rule results.
C16_AcademicRuleSelection ==
  Done("lintAcademicText") =>
    /\ ~result.throws
    /\ IF ~AcademicEnabled
       THEN result.value = [issues |-> <<>>, ruleResults |-> <<>>]
       ELSE /\ [i \in 1..Len(result.value.ruleResults) |-> result.value.ruleResults[i].ruleId]
                 = SelectSeq(AcademicRuleIds,
                             LAMBDA id : /\ id \in Range(AcademicAllowList)
                                         /\ id \notin Range(AcademicDenyList))
            /\ SumIssueCounts(result.value.ruleResults) = Len(result.value.issues)

\* an enabled list in another order than the declaration, one of its rules
\* disabled, and an issue from one of the two rules that ran
C16_Witness ==
  /\ Done("lintAcademicText")
  /\ AcademicEnabled
  /\ AcademicAllowList = <<"hedge-clustering", "weasel-words", "nominalization">>
  /\ AcademicDenyList = <<"nominalization">>
  /\ [i \in 1..Len(result.value.ruleResults) |->
        <<result.value.ruleResults[i].ruleId, result.value.ruleResults[i].issueCount>>]
       = << <<"weasel-words", 0>>, <<"hedge-clustering", 1>> >>
  /\ Len(result.value.issues) = 1
----------------------------------------------------------------------------
(* Properties of the rule evaluator *)

SectionExcluded ==
  /\ IsSome(call.rule.condition.sections)
  /\ call.sectionId \notin Range(Val(call.rule.condition.sections))

\* the matches in the text of the pattern a path stands for; a pattern that
\* does not compile has none
MatchesOfPath(path, text) ==
  IF SourceOf(config, path) = BadSource THEN <<>>
  ELSE AllMatches(SourceOf(config, path), text)

SinglePatternRule == TruthyString(call.rule.condition.matchPattern)

MultiPatternRule ==
  /\ ~TruthyString(call.rule.condition.matchPattern)
  /\ IsSome(call.rule.condition.matchPatterns)

CountThresholdRule ==
  /\ ~TruthyString(call.rule.condition.matchPattern)
  /\ ~IsSome(call.rule.condition.matchPatterns)
  /\ call.rule.condition.type = Some("count-check")
  /\ TruthyString(call.rule.condition.pattern)
  /\ IsSome(call.rule.condition.threshold)

\* C17: a rule whose sections list does not hold the calling section emits
\* no issue, and its evaluation leaves the compiled-pattern cache as it was.
C17_SectionsShortCircuit ==
  (Done("processRule") /\ SectionExcluded) =>
    /\ result.value = <<>>
    /\ patternCache = call.cacheBefore

\* the text holds a match of a pattern of the rule that is not yet cached
C17_Witness ==
  /\ Done("processRule")
  /\ SectionExcluded
  /\ MultiPatternRule
  /\ \E path \in Range(Val(call.rule.condition.matchPatterns)) :
       /\ MatchesOfPath(path, call.text) # <<>>
       /\ path \notin DOMAIN call.cacheBefore
  /\ result.value = <<>>

\* C18: a single-pattern rule that its sections do not exclude emits one
\* issue per match of its pattern, in match order, the match being the
\* location and part of the description (the empty match is part of any
\* description), with the severity and the suggestion of the rule.
C18_OneIssuePerMatch ==
  (Done("processRule") /\ SinglePatternRule /\ ~SectionExcluded) =>
    LET matches == MatchesOfPath(Val(call.rule.condition.matchPattern), call.text)
        issues == result.value
    IN /\ Len(issues) = Len(matches)
       /\ \A i \in 1..Len(issues) :
            /\ issues[i].location = Some(matches[i])
            /\ matches[i] = <<>> \/ matches[i] \in Range(issues[i].description)
            /\ issues[i].severity = call.rule.severity
            /\ issues[i].suggestion = call.rule.suggestion

\* two matches, two issues
C18_Witness ==
  /\ Done("processRule")
  /\ SinglePatternRule
  /\ Len(MatchesOfPath(Val(call.rule.condition.matchPattern), call.text)) = 2
  /\ Len(result.value) = 2
  /\ result.value[2].id = <<call.sectionId, call.rule.id, "1">>

\* C19: a multi-pattern rule that its sections do not exclude emits issues
\* exactly when some pattern of its list matches, and then one per match of
\* the first pattern of the list that matches.
C19_FirstMatchingPattern ==
  (Done("processRule") /\ MultiPatternRule /\ ~SectionExcluded) =>
    LET paths == Val(call.rule.condition.matchPatterns)
        hits == {k \in 1..Len(paths) : MatchesOfPath(paths[k], call.text) # <<>>}
        issues == result.value
    IN /\ issues # <<>> <=> hits # {}
       /\ hits # {} =>
            LET first == CHOOSE k \in hits : \A other \in hits : k <= other
                matches == MatchesOfPath(paths[first], call.text)
            IN [i \in 1..Len(issues) |-> issues[i].location]
                 = [i \in 1..Len(matches) |-> Some(matches[i])]

\* two patterns of the list match and the issues are those of the first
C19_Witness ==
  /\ Done("processRule")
  /\ MultiPatternRule
  /\ ~SectionExcluded
  /\ \A path \in Range(Val(call.rule.condition.matchPatterns)) :
       MatchesOfPath(path, call.text) # <<>>
  /\ Len(Val(call.rule.condition.matchPatterns)) = 2
  /\ Len(result.value) = 1
  /\ result.value[1].location = Some(wTTest)

\* C20: a count-threshold rule that its sections do not exclude triggers
\* exactly when its pattern has at least threshold matches and, if
\* missingAllPatterns is given, none of those patterns matches; when it
\* triggers it emits one issue, without location.
C20_CountThreshold ==
  (Done("processRule") /\ CountThresholdRule /\ ~SectionExcluded) =>
    LET condition == call.rule.condition
        count == Len(MatchesOfPath(Val(condition.pattern), call.text))
        forbidden == /\ IsSome(condition.missingAllPatterns)
                     /\ \E path \in Range(Val(condition.missingAllPatterns)) :
                          MatchesOfPath(path, call.text) # <<>>
        issues == result.value
    IN /\ issues # <<>> <=> (count >= Val(condition.threshold) /\ ~forbidden)
       /\ issues # <<>> => Len(issues) = 1 /\ issues[1].location = None

----------------------------------------------------------------------------
(* Properties of the rules that use other conditions than a match *)

\* the rules lintStatistics processes for the call, in configuration order
SelectedRules == SelectSeq(ValidationRulesOf(config), Selected)

ExcludedFrom(rule, sectionId) ==
  /\ IsSome(rule.condition.sections)
  /\ sectionId \notin Range(Val(rule.condition.sections))

\* no branch before the sample-size check decides the condition
PastCountCheck(condition) ==
  /\ ~TruthyString(condition.matchPattern)
  /\ ~IsSome(condition.matchPatterns)
  /\ ~(/\ condition.type = Some("count-check")
       /\ TruthyString(condition.pattern)
       /\ IsSome(condition.threshold) /\ Val(condition.threshold) # 0)

HasAnyMissingAllRule(rule) ==
  /\ PastCountCheck(rule.condition)
  /\ rule.condition.type # Some("sample-size-check")
  /\ IsSome(rule.condition.hasAnyPattern)
  /\ IsSome(rule.condition.missingAllPatterns)

SomeMatches(paths, text) == \E i \in 1..Len(paths) : MatchesOfPath(paths[i], text) # <<>>

\* C21: a has-any-but-missing-all rule that is evaluated in the section
\* emits one issue if at least one pattern of hasAnyPattern matches the text
\* and no pattern of missingAllPatterns does, and no issue otherwise; a
\* pattern that does not compile matches nothing on either side.
C21_HasAnyMissingAll ==
  (Done("lintStatistics") /\ LintEnabled(config)) =>
    \A i \in 1..Len(SelectedRules) :
      LET rule == SelectedRules[i]
      IN (HasAnyMissingAllRule(rule) /\ ~ExcludedFrom(rule, call.sectionId)) =>
           /\ result.value.ruleResults[i].issueCount
                = IF /\ SomeMatches(Val(rule.condition.hasAnyPattern), call.text)
                     /\ ~SomeMatches(Val(rule.condition.missingAllPatterns), call.text)
                  THEN 1 ELSE 0
           /\ Len(SelectSeq(result.value.issues, LAMBDA issue : issue.id[2] = rule.id))
                = result.value.ruleResults[i].issueCount

\* the rule triggers although the text holds a word for a pattern of
\* missingAllPatterns that does not compile, a pattern of hasAnyPattern that
\* does not compile being passed over
C21_Witness ==
  /\ Done("lintStatistics")
  /\ LintEnabled(config)
  /\ \E i \in 1..Len(SelectedRules) :
       /\ HasAnyMissingAllRule(SelectedRules[i])
       /\ result.value.ruleResults[i].issueCount = 1
       /\ \E p \in Range(Val(SelectedRules[i].condition.hasAnyPattern)) :
            SourceOf(config, p) = BadSource
       /\ \E p \in Range(Val(SelectedRules[i].condition.missingAllPatterns)) :
            SourceOf(config, p) = BadSource
  /\ wD \in Range(call.text)

SampleSizeRule(rule) ==
  /\ PastCountCheck(rule.condition)
  /\ rule.condition.type = Some("sample-size-check")

\* C22: a sample-size-check rule that is evaluated in the section emits one
\* issue if the text has a primary sample size, at least one test is
\* detected and the sample is not adequate for the first detected test, in
\* registry order, and no issue otherwise; it emits none when that first
\* test has no requirement table.
C22_SampleSizeCheck ==
  (Done("lintStatistics") /\ LintEnabled(config)) =>
    \A i \in 1..Len(SelectedRules) :
      LET rule == SelectedRules[i]
          primary == GetPrimarySampleSize(config, call.text)
          tests == DetectStatisticalTests(config, call.text)
      IN (SampleSizeRule(rule) /\ ~ExcludedFrom(rule, call.sectionId)) =>
           /\ result.value.ruleResults[i].issueCount
                = IF /\ IsSome(primary)
                     /\ tests # <<>>
                     /\ ~AssessSampleAdequacy(config, Val(primary), tests[1].configKey).adequate
                  THEN 1 ELSE 0
           /\ (tests # <<>> /\ ~HasRequirementTable(config, tests[1].configKey)) =>
                result.value.ruleResults[i].issueCount = 0

\* the rule stays silent on a sample that is too small for the second
\* detected test, the first one having no requirement table
C22_Witness ==
  /\ Done("lintStatistics")
  /\ LintEnabled(config)
  /\ \E i \in 1..Len(SelectedRules) :
       /\ SampleSizeRule(SelectedRules[i])
       /\ result.value.ruleResults[i].issueCount = 0
  /\ IsSome(GetPrimarySampleSize(config, call.text))
  /\ LET tests == DetectStatisticalTests(config, call.text)
         primary == Val(GetPrimarySampleSize(config, call.text))
     IN /\ Len(tests) > 1
        /\ ~HasRequirementTable(config, tests[1].configKey)
        /\ ~AssessSampleAdequacy(config, primary, tests[2].configKey).adequate
----------------------------------------------------------------------------
(* Properties of the compiled-pattern cache *)

\* the registry string the claim has compiled: the one the path resolves to,
\* the key itself if there is none
ClaimedSource(cfg, patternPath) ==
  IF IsSome(GetPatternString(cfg, patternPath)) THEN Val(GetPatternString(cfg, patternPath))
  ELSE patternPath

\* C23: getCompiledPattern returns the cached pattern of a cached key and
\* leaves the cache alone; for another key it compiles the registry string
\* the path resolves to, or the key itself if the path resolves to no
\* registry string, stores the pattern under the key and returns it; if the
\* compilation fails it returns null, stores nothing and throws nothing.
C23_CompileOrCached ==
  Done("getCompiledPattern") =>
    LET key == call.patternPath
        before == call.cacheBefore
        compiled == CompilePattern(ClaimedSource(config, key))
    IN /\ ~result.throws
       /\ IF key \in DOMAIN before
          THEN result.value = Some(before[key]) /\ patternCache = before
          ELSE IF compiled.throws
          THEN result.value = None /\ patternCache = before
          ELSE /\ result.value = Some(compiled.value)
               /\ patternCache = before @@ (key :> compiled.value)

\* C24: the cache only grows and every key is written once: a step of the
\* program keeps every key and the source of its pattern, and the source
\* stored under a key is the one the key and the configuration determine, so
\* that two first writes of a key store patterns of the same source.
C24_CacheWriteOnce ==
  /\ [](\A key \in DOMAIN patternCache :
          patternCache[key].source = SourceOf(config, key))
  /\ [][\A key \in DOMAIN patternCache :
          /\ key \in DOMAIN patternCache'
          /\ patternCache'[key].source = patternCache[key].source]_vars

\* a key is looked up again while the cache holds it and another key
C24_Witness ==
  /\ Done("getCompiledPattern")
  /\ call.patternPath \in DOMAIN call.cacheBefore
  /\ DOMAIN patternCache = DOMAIN call.cacheBefore
  /\ \E key \in DOMAIN patternCache : key # call.patternPath
----------------------------------------------------------------------------
(* Further properties of the study-type detection and of lintStatistics *)

\* C26: a study type other than unknown is detected with a confidence of at
\* least 1/3, so the test confidence > 0.3 that lintStatistics puts before
\* the checklist is true of every detected study type.
C26_ConfidenceAtLeastThird ==
  (Done("detectStudyType") /\ result.value.type # "unknown") =>
    /\ ~RatLt(result.value.confidence, Rat(1, 3))
    /\ RatLt(Rat(3, 10), result.value.confidence)

\* three markers match, one of each study type: the confidence is 1/3
C26_Witness ==
  /\ Done("detectStudyType")
  /\ result.value.type # "unknown"
  /\ SameNumber(result.value.confidence, Rat(1, 3))
  /\ \A type \in Range(StudyTypes) : MarkerCount(config, type, call.text) = 1

\* the issues processRule gives for the i-th processed rule of the call
IssuesOfRule(i) ==
  ProcessRule(config, call.cacheBefore, SelectedRules[i], call.text, call.sectionId).issues

FailedItems ==
  IF IsSome(result.value.studyDesignChecklist)
  THEN SelectSeq(Val(result.value.studyDesignChecklist), LAMBDA e : ~e.passed)
  ELSE <<>>

\* C27: with the linter enabled, issues is the issues of the processed rules
\* one rule after the other in configuration order, followed by one issue
\* per checklist item that did not pass; ruleResults has one entry per
\* processed rule in that order, with the number of its issues, a rule
\* excluded by its sections being counted with 0; and the number of issues is
\* the sum of the issue counts plus the number of items that did not pass.
C27_IssuesInOrder ==
  (Done("lintStatistics") /\ LintEnabled(config)) =>
    LET issues == result.value.issues
        ruleResults == result.value.ruleResults
        ofRules == Concat([i \in 1..Len(SelectedRules) |-> IssuesOfRule(i)])
    IN /\ Len(issues) = Len(ofRules) + Len(FailedItems)
       /\ SubSeq(issues, 1, Len(ofRules)) = ofRules
       /\ \A k \in 1..Len(FailedItems) :
            issues[Len(ofRules) + k].id
              = <<call.sectionId, "checklist", FailedItems[k].checkItem>>
       /\ Len(ruleResults) = Len(SelectedRules)
       /\ \A i \in 1..Len(SelectedRules) :
            /\ ruleResults[i].ruleId = SelectedRules[i].id
            /\ ruleResults[i].issueCount = Len(IssuesOfRule(i))
            /\ ExcludedFrom(SelectedRules[i], call.sectionId) =>
                 ruleResults[i].issueCount = 0
       /\ Len(issues) = SumIssueCounts(ruleResults) + Len(FailedItems)

\* two rules with issues, a rule excluded by its sections between or around
\* them, and a checklist item that did not pass
C27_Witness ==
  /\ Done("lintStatistics")
  /\ LintEnabled(config)
  /\ Cardinality({i \in 1..Len(SelectedRules) : IssuesOfRule(i) # <<>>}) >= 2
  /\ \E i \in 1..Len(SelectedRules) : ExcludedFrom(SelectedRules[i], call.sectionId)
  /\ FailedItems # <<>>

ProcessedIds ==
  [i \in 1..Len(result.value.ruleResults) |-> result.value.ruleResults[i].ruleId]

\* the ids of the configured rules that are off the deny-list and, unless the
\* allow-list is empty, on the allow-list
IdsAllowedBy(allow, deny) ==
  LET kept == SelectSeq(ValidationRulesOf(config),
                        LAMBDA rule : /\ rule.id \notin Range(deny)
                                      /\ allow = <<>> \/ rule.id \in Range(allow))
  IN [i \in 1..Len(kept) |-> kept[i].id]

ListOr(list, default) == IF IsSome(list) THEN Val(list) ELSE default

\* C28: a list of enabledRules or disabledRules given in the options, the
\* empty list included, is used in place of the configured list, which is
\* used only when the options give none; with enabledRules = [] every rule
\* off the deny-list is processed, whatever allow-list the configuration
\* names.
C28_OptionListsReplace ==
  (Done("lintStatistics") /\ LintEnabled(config)) =>
    LET optAllow == OptionOf(call.options, "enabledRules")
        optDeny == OptionOf(call.options, "disabledRules")
        cfgAllow == ListOr(Val(LintConfig(config)).enabledRules, <<>>)
        cfgDeny == ListOr(Val(LintConfig(config)).disabledRules, <<>>)
    IN /\ ProcessedIds = IdsAllowedBy(ListOr(optAllow, cfgAllow), ListOr(optDeny, cfgDeny))
       /\ optAllow = Some(<<>>) =>
            ProcessedIds = IdsAllowedBy(<<>>, ListOr(optDeny, cfgDeny))

\* the options give an empty allow-list and a deny-list, the configuration
\* names other lists, and a rule that is not on the configured allow-list is
\* processed while one that is only on the deny-list of the options is not
C28_Witness ==
  /\ Done("lintStatistics")
  /\ LintEnabled(config)
  /\ OptionOf(call.options, "enabledRules") = Some(<<>>)
  /\ IsSome(OptionOf(call.options, "disabledRules"))
  /\ ListOr(Val(LintConfig(config)).enabledRules, <<>>) # <<>>
  /\ \E id \in Range(ProcessedIds) :
       id \notin Range(ListOr(Val(LintConfig(config)).enabledRules, <<>>))
  /\ \E id \in Range(ProcessedIds) :
       id \in Range(ListOr(Val(LintConfig(config)).disabledRules, <<>>))
  /\ \E rule \in Range(ValidationRulesOf(config)) : rule.id \notin Range(ProcessedIds)

\* C29: in an evaluated checklist, an item that has a patternRefs list passed
\* exactly if some pattern of the list matches the text, whatever its
\* patternRef does; an item without the list passed exactly if its
\* patternRef matches.
C29_PatternRefsDecide ==
  (Done("lintStatistics") /\ LintEnabled(config)
     /\ IsSome(result.value.studyDesignChecklist)) =>
    LET entries == Val(result.value.studyDesignChecklist)
        items == ChecklistOf(config, result.value.studyType.type)
    IN /\ Len(entries) = Len(items)
       /\ \A k \in 1..Len(items) :
            entries[k].passed
              <=> IF IsSome(items[k].patternRefs)
                  THEN SomeMatches(Val(items[k].patternRefs), call.text)
                  ELSE /\ TruthyString(items[k].patternRef)
                       /\ MatchesOfPath(Val(items[k].patternRef), call.text) # <<>>

\* an item whose patternRef matches and whose patternRefs all fail is
\* reported as not found
C29_Witness ==
  /\ Done("lintStatistics")
  /\ LintEnabled(config)
  /\ IsSome(result.value.studyDesignChecklist)
  /\ \E k \in 1..Len(ChecklistOf(config, result.value.studyType.type)) :
       LET item == ChecklistOf(config, result.value.studyType.type)[k]
       IN /\ TruthyString(item.patternRef)
          /\ MatchesOfPath(Val(item.patternRef), call.text) # <<>>
          /\ IsSome(item.patternRefs)
          /\ Val(item.patternRefs) # <<>>
          /\ ~Val(result.value.studyDesignChecklist)[k].passed
          /\ \E issue \in Range(result.value.issues) :
               issue.id = <<call.sectionId, "checklist", item.id>>
----------------------------------------------------------------------------
(* Properties of the review state *)

IssueUpdaterDone == pc = "done" /\ call.op \in {"addIssue", "removeIssue", "updateIssue"}

\* the issue is old with the fields of updates put in place of its own
MergedFrom(issue, old, updates) ==
  /\ DOMAIN issue = DOMAIN old \cup DOMAIN updates
  /\ \A f \in DOMAIN updates : issue[f] = updates[f]
  /\ \A f \in DOMAIN old \ DOMAIN updates : issue[f] = old[f]

\* C25: addIssue, removeIssue and updateIssue for a section change nothing
\* but the issues list of that section; updateIssue puts in place of each
\* issue of the section that has the given id the issue merged with the
\* updates and keeps every other issue; with a section id that names no
\* section, or an issue id that no issue of the section has, the state is
\* left as it was.
C25_IssueUpdatersFrame ==
  IssueUpdaterDone =>
    LET prev == call.prev
        before == prev.sections
        after == state.sections
    IN /\ [state EXCEPT !.sections = before] = prev
       /\ Len(after) = Len(before)
       /\ \A k \in 1..Len(before) :
            /\ [after[k] EXCEPT !.issues = before[k].issues] = before[k]
            /\ before[k].id # call.sectionId => after[k] = before[k]
            /\ (call.op = "updateIssue" /\ before[k].id = call.sectionId) =>
                 /\ Len(after[k].issues) = Len(before[k].issues)
                 /\ \A n \in 1..Len(before[k].issues) :
                      IF before[k].issues[n].id = call.issueId
                      THEN MergedFrom(after[k].issues[n], before[k].issues[n], call.updates)
                      ELSE after[k].issues[n] = before[k].issues[n]
            /\ (call.op # "addIssue" /\ before[k].id = call.sectionId
                  /\ \A n \in 1..Len(before[k].issues) :
                       before[k].issues[n].id # call.issueId) =>
                 after[k] = before[k]
       /\ call.sectionId \notin Range(sectionOrder) => state = prev

\* updateIssue renames an issue of one section while another section holds
\* an issue of the same id
C25_Witness ==
  /\ Done("updateIssue")
  /\ "id" \in DOMAIN call.updates
  /\ \E k, j \in 1..Len(state.sections) :
       /\ k # j
       /\ call.prev.sections[k].id = call.sectionId
       /\ \E n \in 1..Len(call.prev.sections[k].issues) :
            /\ call.prev.sections[k].issues[n].id = call.issueId
            /\ state.sections[k].issues[n].id # call.issueId
       /\ \E n \in 1..Len(state.sections[j].issues) :
            state.sections[j].issues[n].id = call.issueId
----------------------------------------------------------------------------
(* Properties of the reference checks *)

IssuesOfKind(kind) == SelectSeq(result.value, LAMBDA issue : issue.id[2] = kind)

\* the numbers cited as [n] anywhere in the full text
CitedSet == {CitationNumber(w) : w \in {v \in Range(Concat(call.fullPaperText)) : IsCitation(v)}}

\* the lines of the references text that start with an entry [n]
EntryLines == {k \in 1..Len(call.text) : call.text[k] # <<>> /\ IsCitation(Head(call.text[k]))}
EntryNumber(k) == CitationNumber(Head(call.text[k]))

\* the cited numbers without an entry, the entries that are cited nowhere
MissingNumbers == {n \in CitedSet : \A k \in EntryLines : EntryNumber(k) # n}
OrphanEntries == {k \in EntryLines : EntryNumber(k) \notin CitedSet}

\* one issue of the kind for each number of the set, and no other
OnePerNumber(kind, numbers) ==
  /\ Len(IssuesOfKind(kind)) = Cardinality(numbers)
  /\ \A n \in numbers : \E issue \in Range(IssuesOfKind(kind)) : issue.description[2] = n

\* the lines of the references text are lines of the full text, in a row
ReferencesContained ==
  \E i \in 0..Len(call.fullPaperText) :
    /\ i + Len(call.text) <= Len(call.fullPaperText)
    /\ \A k \in 1..Len(call.text) : call.fullPaperText[i + k] = call.text[k]

\* C30 as stated: whatever the configuration, one missing-reference issue
\* for each distinct cited number without an entry, one orphan issue for each
\* entry that is cited nowhere, and no orphan issue when the references text
\* is part of the full text.
C30_ReferenceIssuesAlways ==
  Done("analyzeReferences") =>
    /\ OnePerNumber("ref-missing", MissingNumbers)
    /\ Len(IssuesOfKind("ref-orphan")) = Cardinality(OrphanEntries)
    /\ ReferencesContained => IssuesOfKind("ref-orphan") = <<>>

\* C30: with checkMissingReferences on there is one missing-reference issue
\* for each distinct cited number without an entry, and none with it off;
\* with checkOrphanReferences on there is one orphan issue for each entry
\* that is cited nowhere, in entry order, and none with it off; there is no
\* orphan issue when the references text is part of the full text.
C30_ReferenceIssues ==
  Done("analyzeReferences") =>
    /\ IF config.referenceValidation.checkMissingReferences
       THEN OnePerNumber("ref-missing", MissingNumbers)
       ELSE IssuesOfKind("ref-missing") = <<>>
    /\ IF config.referenceValidation.checkOrphanReferences
       THEN /\ Len(IssuesOfKind("ref-orphan")) = Cardinality(OrphanEntries)
            /\ \A k \in OrphanEntries :
                 \E issue \in Range(IssuesOfKind("ref-orphan")) :
                   issue.description[2] = EntryNumber(k)
       ELSE IssuesOfKind("ref-orphan") = <<>>
    /\ ReferencesContained => IssuesOfKind("ref-orphan") = <<>>

\* two entries of the same number that is cited nowhere give two orphan
\* issues, and a number cited twice without an entry gives one issue
C30_Witness ==
  /\ Done("analyzeReferences")
  /\ config.referenceValidation.checkMissingReferences
  /\ config.referenceValidation.checkOrphanReferences
  /\ Len(IssuesOfKind("ref-orphan")) = 2
  /\ Cardinality({EntryNumber(k) : k \in OrphanEntries}) = 1
  /\ Len(SelectSeq(Concat(call.fullPaperText), IsCitation)) = 2
  /\ Len(IssuesOfKind("ref-missing")) = 1
=============================================================================
